---- MODULE Spec2Model ----
(***************************************************************************)
(* A model of the Defender simulation engine (src/defender.py): the        *)
(* wrapping world line, the colonist and lander state machines, the player *)
(* (hit, respawn, hyperspace), the spawn queue and the per-frame update of *)
(* DefenderGame.                                                           *)
(*                                                                         *)
(* Units.  World X and screen coordinates are pixels.  World Y is kept in  *)
(* twelfths of a pixel (YU per pixel) so that the two drop-height          *)
(* thresholds of Human.update (1/3 and 3/4 of the playable span) and the   *)
(* heights 0.9 * 3/4 of the span are exact integers.  Time is in           *)
(* milliseconds; a speed v (pixels per second) moves v * dt / 1000 pixels  *)
(* in a frame of dt milliseconds, rounded down as integer arithmetic does. *)
(***************************************************************************)
EXTENDS Integers, Sequences, FiniteSets, TLC

\* ------------------------------------------------------------------------
\* Program constants (src/defender.py:24-123)
\* ------------------------------------------------------------------------
SCREEN_WIDTH == 1180
SCREEN_HEIGHT == 760
WORLD_WIDTH == 6000
HUD_HEIGHT == 110
PLAYFIELD_TOP == HUD_HEIGHT + 60

PLAYER_FIRE_COOLDOWN == 180
PLAYER_BULLET_SPEED == 700
PLAYER_RESPAWN_INVULN == 2500
PLAYER_DEATH_INVULN == 2000
PLAYER_DEATH_RESPAWN_DELAY == 2000
PLAYER_VERTICAL_SPEED == 260
PLAYER_ACCEL == 520
PLAYER_MAX_SPEED == 520
PLAYER_CRUISE_SPEED == 120
ENGINE_DAMPING == 320

LANDER_MIN_ALTITUDE == 120
LANDER_SPEED == 80
LANDER_ASCENT_SPEED == 90
LANDER_DESCENT_SPEED == 110

HUMAN_COUNT == 10
HUMAN_SPACING == WORLD_WIDTH \div HUMAN_COUNT
GRAVITY == 168
TERMINAL_VELOCITY == 480

MINE_TTL == 12000
BAITER_SPAWN_DELAY == 35000

GROUND_BASELINE == SCREEN_HEIGHT - 110
GROUND_PRIMARY_AMPLITUDE == 55
GROUND_SECONDARY_AMPLITUDE == 28

HYPERSPACE_COOLDOWN == 5000
HYPERSPACE_LOCK_DURATION == 120
HYPERSPACE_VANISH_TIME == 60
HYPERSPACE_REAPPEAR_DELAY == 90
HYPERSPACE_REAPPEAR_TIME == 60
HYPERSPACE_STABILIZE_TIME == 90

\* Twelfths of a pixel per pixel of world Y (see Units above).
YU == 3 * 4

\* None, and the carrier value that stands for the Player object.
None == 0
PLAYER == 0 - 1

\* ------------------------------------------------------------------------
\* Helper utilities (src/defender.py:273-305)
\* ------------------------------------------------------------------------
Abs(v) == IF v < 0 THEN 0 - v ELSE v

Max(a, b) == IF a >= b THEN a ELSE b

Min(a, b) == IF a <= b THEN a ELSE b

\* speed (units per second) times dt (milliseconds)
Scale(speed, dt) == (speed * dt) \div 1000

wrap_position(x) ==
    IF x < 0 THEN x + WORLD_WIDTH
    ELSE IF x >= WORLD_WIDTH THEN x - WORLD_WIDTH
    ELSE x

shortest_offset(a, b) ==
    LET raw == (a - b) % WORLD_WIDTH
    IN  IF 2 * raw > WORLD_WIDTH THEN raw - WORLD_WIDTH ELSE raw

world_to_screen(x, camera_x) == shortest_offset(x, camera_x) + SCREEN_WIDTH \div 2

clamp(value, low, high) == Max(low, Min(high, value))

\* math.sin on an angle given in milliradians, result times 1000.  Integer
\* evaluation by Bhaskara's rational approximation on each half period
\* (error below 0.002).
HalfSine(t) ==
    LET p == t * (3142 - t)
    IN  (16000 * (p \div 64)) \div ((5 * 3142 * 3142 - 4 * p) \div 64)

Sin1000(t) ==
    LET r == t % 6283
    IN  IF r <= 3142 THEN HalfSine(r) ELSE 0 - HalfSine(Min(r - 3141, 3142))

\* terrain height in YU at world X (pixels)
terrain_height(x0) ==
    LET x == x0 % WORLD_WIDTH
        primary == (Sin1000(4 * x) * GROUND_PRIMARY_AMPLITUDE * YU) \div 1000
        secondary == (Sin1000((17 * x) \div 10 + 1400) * GROUND_SECONDARY_AMPLITUDE * YU) \div 1000
    IN  GROUND_BASELINE * YU + primary + secondary

\* integer square root (Vector2.length)
RECURSIVE SqrtStep(_, _, _)
SqrtStep(n, lo, hi) ==
    IF lo >= hi THEN lo
    ELSE LET mid == (lo + hi + 1) \div 2
         IN  IF mid * mid <= n THEN SqrtStep(n, mid, hi) ELSE SqrtStep(n, lo, mid - 1)

ISqrt(n) == SqrtStep(n, 0, 4000)

\* ------------------------------------------------------------------------
\* State
\* ------------------------------------------------------------------------
VARIABLES
    game,        \* DefenderGame scalar fields (mode, wave, timers, spawn queue, demo)
    player,      \* the Player object
    humans,      \* DefenderGame.humans: index -> Human
    enemies,     \* DefenderGame.enemies, in insertion order
    lasers,      \* DefenderGame.lasers, in insertion order
    enemy_shots, \* DefenderGame.enemy_shots (EnemyShot and Mine), in insertion order
    shards,      \* HyperspaceShard sprites in all_sprites
    fx,          \* effects requested from the collaborators during the current frame
    pc,          \* position inside DefenderGame.update
    frame_dt,    \* dt of the frame being simulated
    call         \* the module-level function under evaluation: name, arguments, result

vars == <<game, player, humans, enemies, lasers, enemy_shots, shards, fx, pc, frame_dt, call>>

\* no module-level function is under evaluation
NoCall == [f |-> "none", args |-> <<>>, result |-> <<>>]

\* The world as one value, threaded through the operators below.
World == [g |-> game, p |-> player, h |-> humans, e |-> enemies, l |-> lasers,
          s |-> enemy_shots, sh |-> shards, fx |-> fx]

SetWorld(w) ==
    /\ game' = w.g
    /\ player' = w.p
    /\ humans' = w.h
    /\ enemies' = w.e
    /\ lasers' = w.l
    /\ enemy_shots' = w.s
    /\ shards' = w.sh
    /\ fx' = w.fx
    /\ call' = call

\* sprite sizes (width, height) in pixels: the surfaces of src/defender.py:330-409,
\* 497, 581, 1482, 1500-1511, 1532-1548, 1576-1587, 1612-1626
SpriteW(kind) ==
    CASE kind = "human" -> 10
      [] kind = "player" -> 58
      [] kind = "lander" -> 28
      [] kind = "mutant" -> 28
      [] kind = "bomber" -> 24
      [] kind = "pod" -> 28
      [] kind = "swarmer" -> 12
      [] kind = "baiter" -> 28
      [] kind = "shot" -> 12
      [] kind = "mine" -> 12
      [] OTHER -> SCREEN_WIDTH

SpriteH(kind) ==
    CASE kind = "human" -> 24
      [] kind = "player" -> 20
      [] kind = "lander" -> 28
      [] kind = "mutant" -> 28
      [] kind = "bomber" -> 24
      [] kind = "pod" -> 28
      [] kind = "swarmer" -> 16
      [] kind = "baiter" -> 16
      [] kind = "shot" -> 12
      [] kind = "mine" -> 12
      [] OTHER -> 5

\* sequence helpers
RECURSIVE SelectIdx(_, _, _)
SelectIdx(seq, id, i) ==
    IF i > Len(seq) THEN 0
    ELSE IF seq[i].id = id THEN i
    ELSE SelectIdx(seq, id, i + 1)

EIdx(w, id) == SelectIdx(w.e, id, 1)

Alive(w, id) == id /= None /\ EIdx(w, id) /= 0

Remove(seq, i) == [j \in 1..(Len(seq) - 1) |-> IF j < i THEN seq[j] ELSE seq[j + 1]]

Emit(w, kind, x, y) == [w EXCEPT !.fx = @ \cup {[kind |-> kind, x |-> x, y |-> y]}]

\* ------------------------------------------------------------------------
\* Human (src/defender.py:772-889)
\* ------------------------------------------------------------------------
NewHuman(x) ==
    [state |-> "ground", carrier |-> None, x |-> x,
     y |-> terrain_height(x) - (SpriteH("human") \div 2) * YU,
     vy |-> 0, drop_start_y |-> terrain_height(x) - (SpriteH("human") \div 2) * YU,
     safe_landing_rewarded |-> TRUE, reserved_by |-> None,
     rl |-> 0, rt |-> 0]

\* a release_reservation that does not ask who holds the reservation
release_reservation_unchecked(hu, lander) == [hu EXCEPT !.reserved_by = None]

\* Human.release_reservation on the Human record
release_reservation(hu, lander) ==
    IF lander = None \/ hu.reserved_by = lander
    THEN [hu EXCEPT !.reserved_by = None]
    ELSE hu

\* a faulty reserve_for_lander, which forgets the test of reserved_by
reserve_ignoring_holder(hu, lander) == hu.state = "ground"

\* Human.reserve_for_lander: the returned boolean
reserve_ok(hu, lander) ==
    /\ hu.state = "ground"
    /\ hu.reserved_by \in {None, lander}

\* Human.reserve_for_lander: the effect on the Human
reserve_for_lander(hu, lander) ==
    IF reserve_ok(hu, lander) THEN [hu EXCEPT !.reserved_by = lander] ELSE hu

start_falling(hu) ==
    release_reservation(
        [hu EXCEPT !.state = "falling", !.carrier = None, !.vy = 0,
                   !.drop_start_y = hu.y, !.safe_landing_rewarded = FALSE],
        None)

\* a capture that does not record the carrier
capture_unrecorded(hu, lander) ==
    IF hu.state = "ground"
    THEN release_reservation([hu EXCEPT !.state = "captured"], lander)
    ELSE hu

capture(hu, lander) ==
    IF hu.state = "ground"
    THEN release_reservation([hu EXCEPT !.state = "captured", !.carrier = lander], lander)
    ELSE hu

attach_to_player(hu) ==
    release_reservation([hu EXCEPT !.state = "carried", !.carrier = PLAYER, !.vy = 0], None)

place_on_ground(hu) ==
    release_reservation(
        [hu EXCEPT !.y = terrain_height(hu.x) - (SpriteH("human") \div 2) * YU,
                   !.vy = 0, !.state = "ground", !.carrier = None],
        None)

\* ------------------------------------------------------------------------
\* Lander: release_target, on_captive_removed (src/defender.py:1396-1406)
\* ------------------------------------------------------------------------
\* a lander that gives the reservation back but keeps the colonist as its target
release_target_kept(w, id) ==
    LET i == EIdx(w, id)
        t == w.e[i].target
    IN  IF i = 0 \/ t = None THEN w
        ELSE [w EXCEPT !.h[t] = release_reservation(@, id)]

release_target(w, id) ==
    LET i == EIdx(w, id)
        t == w.e[i].target
    IN  IF i = 0 THEN w
        ELSE [w EXCEPT !.h = IF t = None THEN @
                                ELSE [@ EXCEPT ![t] = release_reservation(@, id)],
                       !.e[i].target = None]

\* a lander that takes no notice of the loss of its colonist
on_captive_ignored(w, id, r) == w

\* r.dir is the value random.choice([-1, 1]) returns
on_captive_removed(w, id, r) ==
    LET i == EIdx(w, id)
        w1 == release_target(w, id)
    IN  IF i = 0 THEN w
        ELSE [w1 EXCEPT !.e[i].state = IF @ \in {"descending", "ascending"} THEN "patrolling" ELSE @,
                        !.e[i].home_altitude = clamp(w.e[i].y, (PLAYFIELD_TOP + 40) * YU,
                                                     (PLAYFIELD_TOP + 160) * YU),
                        !.e[i].patrol_direction = r.dir]

\* Human.die (and Human.kill, which calls it)
die(w, k, r) ==
    LET hu == w.h[k]
        carrier == hu.carrier
        w1 == [w EXCEPT !.h[k] = release_reservation(
                   [hu EXCEPT !.state = "dead", !.carrier = None, !.vy = 0], None)]
    IN  IF hu.state = "dead" THEN w
        ELSE IF carrier /= None /\ carrier /= PLAYER THEN on_captive_removed(w1, carrier, r)
        ELSE w1

\* ------------------------------------------------------------------------
\* Bounds of the model
\* ------------------------------------------------------------------------
\* sprite identities handed out before spawning stops
MaxId == 40
\* highest wave number whose setup is simulated
MaxWave == 7
\* wave time (seconds) after which no further frame is simulated
MaxWaveSeconds == 40
\* queue_spawn calls simulated before queueing stops
MaxSpawnSequence == 30

\* ------------------------------------------------------------------------
\* Spawn queue: heapq on (spawn_time, spawn_sequence, func, args)
\* (src/defender.py:1884-1887, 2151-2153)
\* ------------------------------------------------------------------------
\* a comparison that takes the later submission first among equal times
ItemLessLifo(a, b) == a.time < b.time \/ (a.time = b.time /\ a.seq > b.seq)

\* tuple comparison of two queue entries
ItemLess(a, b) == a.time < b.time \/ (a.time = b.time /\ a.seq < b.seq)

RECURSIVE SiftDown(_, _, _, _)
SiftDown(heap, startpos, pos, newitem) ==
    IF pos > startpos /\ ItemLess(newitem, heap[(pos - 1) \div 2 + 1])
    THEN SiftDown([heap EXCEPT ![pos + 1] = heap[(pos - 1) \div 2 + 1]],
                  startpos, (pos - 1) \div 2, newitem)
    ELSE [heap EXCEPT ![pos + 1] = newitem]

RECURSIVE SiftUp(_, _, _)
SiftUp(heap, pos, newitem) ==
    LET endpos == Len(heap)
        childpos == 2 * pos + 1
        rightpos == childpos + 1
        c == IF rightpos < endpos /\ ~ItemLess(heap[childpos + 1], heap[rightpos + 1])
             THEN rightpos ELSE childpos
    IN  IF childpos < endpos
        THEN SiftUp([heap EXCEPT ![pos + 1] = heap[c + 1]], c, newitem)
        ELSE SiftDown([heap EXCEPT ![pos + 1] = newitem], 0, pos, newitem)

heappush(heap, item) == SiftDown(Append(heap, item), 0, Len(heap), item)

\* the heap after heappop; the item returned is heap[1]
heappop(heap) ==
    LET lastelt == heap[Len(heap)]
        rest == SubSeq(heap, 1, Len(heap) - 1)
    IN  IF Len(rest) = 0 THEN rest ELSE SiftUp(rest, 0, lastelt)

queue_spawn(w, delay, func, x) ==
    [w EXCEPT !.g.spawn_sequence = @ + 1,
              !.g.pending_spawns = heappush(@, [time |-> w.g.wave_timer + delay,
                                                seq |-> w.g.spawn_sequence + 1,
                                                func |-> func, x |-> x])]

\* ------------------------------------------------------------------------
\* Enemies (src/defender.py:1253-1290, 1409-1421, 1496-1515, 1528-1551,
\* 1572-1590, 1608-1629, 1877-1920, 2074-2079)
\* ------------------------------------------------------------------------
\* random.uniform(lo, hi) for a draw u in 0..1000 (thousandths)
Uniform(lo, hi, u) == lo + ((hi - lo) * u) \div 1000

NewEnemy(id, kind, x, y, r) ==
    [id |-> id, kind |-> kind, x |-> x, y |-> y,
     vx |-> IF kind = "pod" THEN r.dir * 90 ELSE 0,
     health |-> IF kind = "mutant" THEN 2 ELSE 1,
     points |-> CASE kind = "lander" -> 150 [] kind = "mutant" -> 300
                  [] kind = "bomber" -> 250 [] kind = "pod" -> 500
                  [] kind = "swarmer" -> 150 [] OTHER -> 750,
     state |-> "patrolling", target |-> None, home_altitude |-> y,
     patrol_direction |-> r.dir,
     fire_timer |-> CASE kind = "mutant" -> Uniform(1200, 2000, r.u)
                      [] kind = "baiter" -> Uniform(900, 1600, r.u)
                      [] kind = "swarmer" -> 9999000
                      [] OTHER -> Uniform(2400, 4800, r.u),
     drop_timer |-> Uniform(1800, 3600, r.u),
     rl |-> 0, rt |-> 0]

register_enemy_spawn(w) ==
    [w EXCEPT !.g.remaining_aliens = @ + 1, !.g.total_wave_aliens = @ + 1]

enemy_destroyed(w) == [w EXCEPT !.g.remaining_aliens = Max(0, @ - 1)]

\* enemies.add(sprite) followed by register_enemy_spawn
AddEnemy(w, kind, x, y, r) ==
    register_enemy_spawn(
        [w EXCEPT !.e = Append(@, NewEnemy(w.g.next_id, kind, x, y, r)),
                  !.g.next_id = @ + 1])

spawn_lander(w, x, r) ==
    AddEnemy(w, "lander", x, Uniform((PLAYFIELD_TOP + 40) * YU, (PLAYFIELD_TOP + 160) * YU, r.u), r)

spawn_bomber(w, x, r) ==
    AddEnemy(w, "bomber", x, Uniform((PLAYFIELD_TOP + 80) * YU, (PLAYFIELD_TOP + 180) * YU, r.u), r)

spawn_pod(w, x, r) ==
    AddEnemy(w, "pod", x, Uniform((PLAYFIELD_TOP + 100) * YU, (PLAYFIELD_TOP + 220) * YU, r.u), r)

spawn_swarmer(w, x, y, r) == AddEnemy(w, "swarmer", x, y, r)

\* a spawn_baiter that does not record that the wave has had its Baiter
spawn_baiter_unrecorded(w, r) ==
    AddEnemy(w, "baiter", wrap_position(w.p.x + (WORLD_WIDTH \div 2) * r.dir),
             Uniform((PLAYFIELD_TOP + 120) * YU, (PLAYFIELD_TOP + 200) * YU, r.u), r)

spawn_baiter(w, r) ==
    LET w1 == AddEnemy(w, "baiter", wrap_position(w.p.x + (WORLD_WIDTH \div 2) * r.dir),
                       Uniform((PLAYFIELD_TOP + 120) * YU, (PLAYFIELD_TOP + 200) * YU, r.u), r)
    IN  [w1 EXCEPT !.g.baiter_spawned = TRUE]

spawned_mutant(w, x, y, r) ==
    LET w1 == AddEnemy(w, "mutant", x, y, r)
    IN  [w1 EXCEPT !.g.demo_mutant_observed = IF w.g.demo_active THEN TRUE ELSE @]

\* func(*args) of a popped queue entry
Materialize(w, item, r) ==
    CASE item.func = "spawn_lander" -> spawn_lander(w, item.x, r)
      [] item.func = "spawn_bomber" -> spawn_bomber(w, item.x, r)
      [] OTHER -> spawn_pod(w, item.x, r)

\* ------------------------------------------------------------------------
\* Waves (src/defender.py:1741-1875)
\* ------------------------------------------------------------------------
\* the categories that no wave queues
NoOthers == [mutants |-> 0, swarmer |-> 0, baiters |-> 0]

\* a composition whose later waves start one bomber lower than wave 5
wave_composition_low(wave) ==
    LET bonus == wave - 5
        Of(l, b, p) == [landers |-> l, bombers |-> b, pods |-> p] @@ NoOthers
    IN  CASE wave = 1 -> Of(10, 0, 0)
          [] wave = 2 -> Of(12, 2, 0)
          [] wave = 3 -> Of(14, 3, 0)
          [] wave = 4 -> Of(16, 4, 0)
          [] wave = 5 -> Of(18, 5, 3)
          [] OTHER -> Of(Min(24, 18 + bonus), 4 + (bonus \div 2), 3 + Max(0, (bonus - 1) \div 2))

wave_composition(wave) ==
    LET bonus == wave - 5
        Of(l, b, p) == [landers |-> l, bombers |-> b, pods |-> p] @@ NoOthers
    IN  CASE wave = 1 -> Of(10, 0, 0)
          [] wave = 2 -> Of(12, 2, 0)
          [] wave = 3 -> Of(14, 3, 0)
          [] wave = 4 -> Of(16, 4, 0)
          [] wave = 5 -> Of(18, 5, 3)
          [] OTHER -> Of(Min(24, 18 + bonus), 5 + (bonus \div 2), 3 + Max(0, (bonus - 1) \div 2))

\* random_positions(count)[i] for a draw u in 0..1000
RandomPosition(count, i, u) == (((i * 1000 + u) * WORLD_WIDTH) \div (count * 1000)) % WORLD_WIDTH

\* the inner loop of spawn_wave_enemies for one category
RECURSIVE QueueCategory(_, _, _, _, _, _, _)
QueueCategory(w, func, count, i, start, gap, r) ==
    IF i >= count THEN w
    ELSE QueueCategory(queue_spawn(w, start + i * gap, func, RandomPosition(count, i, r.u)),
                       func, count, i + 1, start, gap, r)

spawn_wave_enemies(w, r) ==
    LET composition == wave_composition(w.g.wave)
        w0 == [w EXCEPT !.g.remaining_aliens = 0, !.g.total_wave_aliens = 0,
                        !.g.pending_spawns = <<>>]
        w1 == QueueCategory(w0, "spawn_lander", composition.landers, 0, 500, 1000, r)
        w2 == QueueCategory(w1, "spawn_bomber", composition.bombers, 0,
                            IF w.g.wave < 6 THEN 12000 ELSE 8000, 3000, r)
    IN  QueueCategory(w2, "spawn_pod", composition.pods, 0, 24000, 3800, r)

start_wave(w, r) ==
    LET lead == (SCREEN_WIDTH \div 4) * w.p.direction
        w1 == [w EXCEPT !.p.held_human = None,
                        !.p.reverse_in_progress = FALSE,
                        !.p.lead_animating = FALSE,
                        !.p.pending_direction = w.p.direction,
                        !.p.lead_current = lead,
                        !.p.lead_start = lead,
                        !.p.lead_target = lead,
                        !.p.lead_timer = 0,
                        !.p.velocity_x = PLAYER_CRUISE_SPEED * w.p.direction,
                        !.p.pending_speed = PLAYER_CRUISE_SPEED,
                        !.p.throttle_active = FALSE,
                        !.p.hyperspace_state = "idle",
                        !.p.hyperspace_timer = 0,
                        !.p.controls_lock = 0,
                        !.p.render_visible = TRUE,
                        !.g.wave_timer = 0,
                        !.g.baiter_spawned = FALSE]
        w2 == spawn_wave_enemies(w1, r)
    IN  [w2 EXCEPT !.g.ground_destroyed = FALSE,
                   !.g.smart_bombs = 1,
                   !.g.hyperspace_cooldown = 0]

clear_wave_state(w) ==
    [w EXCEPT !.l = <<>>,
              !.s = <<>>,
              !.p.held_human = None,
              !.p.invulnerable = Max(@, 1000),
              !.g.remaining_aliens = 0,
              !.g.baiter_spawned = FALSE,
              !.g.pending_spawns = <<>>,
              !.g.spawn_sequence = 0]

HUMAN_POSITIONS == [i \in 1..HUMAN_COUNT |-> (i - 1) * HUMAN_SPACING + HUMAN_SPACING \div 2]

repopulate_humans(w) == [w EXCEPT !.h = [i \in 1..HUMAN_COUNT |-> NewHuman(HUMAN_POSITIONS[i])]]

begin_next_wave(w, r) ==
    start_wave(repopulate_humans(clear_wave_state([w EXCEPT !.g.wave = @ + 1])), r)

\* ------------------------------------------------------------------------
\* Rectangles (src/defender.py:460-462, 516-525; pygame.sprite.collide_rect)
\* A sprite keeps the left and top of its screen rectangle in rl, rt; a
\* sprite created after the refresh loop of the frame still has the
\* rectangle image.get_rect() gave it, at the screen origin.
\* ------------------------------------------------------------------------
update_rect(sp, kind, camera_x) ==
    [sp EXCEPT !.rl = world_to_screen(sp.x, camera_x) - SpriteW(kind) \div 2,
               !.rt = sp.y \div YU - SpriteH(kind) \div 2]

\* Laser.update_rect with anchor "tip"
laser_update_rect(la, camera_x) ==
    [la EXCEPT !.rl = IF la.dir >= 0 THEN world_to_screen(la.x, camera_x)
                      ELSE world_to_screen(la.x, camera_x) - SpriteW("laser"),
               !.rt = la.y \div YU - SpriteH("laser") \div 2]

collide_rect(a, akind, b, bkind) ==
    /\ a.rl < b.rl + SpriteW(bkind)
    /\ b.rl < a.rl + SpriteW(akind)
    /\ a.rt < b.rt + SpriteH(bkind)
    /\ b.rt < a.rt + SpriteH(akind)

ShotKind(sh) == IF sh.mine THEN "mine" ELSE "shot"

\* ------------------------------------------------------------------------
\* Player (src/defender.py:892-1250) and the DefenderGame methods it calls
\* ------------------------------------------------------------------------
NewPlayer ==
    [x |-> WORLD_WIDTH \div 2, y |-> (PLAYFIELD_TOP + 180) * YU, direction |-> 1,
     fire_cooldown |-> 0, lives |-> 2, score |-> 0,
     invulnerable |-> PLAYER_RESPAWN_INVULN, held_human |-> None,
     reverse_in_progress |-> FALSE, pending_direction |-> 1,
     lead_timer |-> 0, lead_animating |-> FALSE,
     lead_start |-> SCREEN_WIDTH \div 4, lead_target |-> SCREEN_WIDTH \div 4,
     lead_current |-> SCREEN_WIDTH \div 4,
     velocity_x |-> PLAYER_CRUISE_SPEED, pending_speed |-> PLAYER_CRUISE_SPEED,
     throttle_active |-> FALSE, render_visible |-> TRUE, controls_lock |-> 0,
     hyperspace_state |-> "idle", hyperspace_timer |-> 0,
     hyperspace_inbound_shards |-> 0, lives_awarded |-> 0,
     hyperspace_entry_direction |-> 1, hyperspace_entry_lead |-> SCREEN_WIDTH \div 4,
     hyperspace_entry_velocity |-> PLAYER_CRUISE_SPEED,
     hyperspace_entry_pending |-> PLAYER_CRUISE_SPEED,
     hyperspace_entry_throttle |-> FALSE,
     rl |-> 0, rt |-> 0]

check_extra_life(w) ==
    IF w.p.lives >= 5 THEN w
    ELSE IF w.p.score >= (w.p.lives_awarded + 1) * 10000
         THEN [w EXCEPT !.p.lives = @ + 1, !.p.lives_awarded = @ + 1]
         ELSE w

drop_carried_human(w, force_fall) ==
    LET k == w.p.held_human
        moved == [w.h[k] EXCEPT !.x = wrap_position(w.p.x),
                                !.y = IF force_fall THEN w.p.y + SpriteH("player") * YU ELSE @]
    IN  IF k = None THEN w
        ELSE [w EXCEPT !.p.held_human = None, !.h[k] = start_falling(moved)]

pickup_human(w, k) ==
    IF w.p.held_human /= None THEN w
    ELSE [w EXCEPT !.p.held_human = k, !.h[k] = attach_to_player(@)]

deliver_human(w) ==
    LET k == w.p.held_human
    IN  IF k = None THEN w
        ELSE [w EXCEPT !.p.held_human = None,
                       !.h[k] = place_on_ground([@ EXCEPT !.x = wrap_position(w.p.x)])]

begin_player_respawn_delay(w) ==
    [w EXCEPT !.p.lives = @ - 1,
              !.p.render_visible = FALSE,
              !.p.invulnerable = Max(@, PLAYER_DEATH_RESPAWN_DELAY + PLAYER_DEATH_INVULN),
              !.g.respawn_timer = [active |-> TRUE, time_left |-> PLAYER_DEATH_RESPAWN_DELAY]]

\* a hit that ignores the no-death mode and the invulnerability
hit_regardless(w) ==
    begin_player_respawn_delay(
        Emit(drop_carried_human(w, TRUE), "player_explosion", w.p.x, w.p.y))

\* a hit that the invulnerability does not stop
hit_through_shield(w) ==
    IF w.g.no_death THEN [w EXCEPT !.p.invulnerable = Max(@, 500)]
    ELSE begin_player_respawn_delay(
             Emit(drop_carried_human(w, TRUE), "player_explosion", w.p.x, w.p.y))

\* Player.hit
hit(w) ==
    IF w.g.no_death THEN [w EXCEPT !.p.invulnerable = Max(@, 500)]
    ELSE IF w.p.invulnerable > 0 THEN w
    ELSE begin_player_respawn_delay(
             Emit(drop_carried_human(w, TRUE), "player_explosion", w.p.x, w.p.y))

respawn_player(w) ==
    LET w1 == drop_carried_human(w, TRUE)
    IN  [w1 EXCEPT !.p.x = WORLD_WIDTH \div 2,
                   !.p.y = (SCREEN_HEIGHT \div 2) * YU,
                   !.p.invulnerable = PLAYER_RESPAWN_INVULN,
                   !.p.direction = 1,
                   !.p.reverse_in_progress = FALSE,
                   !.p.lead_animating = FALSE,
                   !.p.pending_direction = 1,
                   !.p.lead_current = SCREEN_WIDTH \div 4,
                   !.p.lead_start = SCREEN_WIDTH \div 4,
                   !.p.lead_target = SCREEN_WIDTH \div 4,
                   !.p.lead_timer = 0,
                   !.p.velocity_x = PLAYER_CRUISE_SPEED,
                   !.p.pending_speed = PLAYER_CRUISE_SPEED,
                   !.p.throttle_active = FALSE]

game_over(w) == [w EXCEPT !.g.mode = "game_over"]

\* a respawn that gives up with the last ship still in reserve
finish_player_respawn_early(w) ==
    IF w.p.lives <= 0 THEN game_over(w)
    ELSE [respawn_player(w) EXCEPT !.p.render_visible = TRUE,
                                   !.p.invulnerable = PLAYER_RESPAWN_INVULN + PLAYER_DEATH_INVULN]

finish_player_respawn(w) ==
    IF w.p.lives < 0 THEN game_over(w)
    ELSE [respawn_player(w) EXCEPT !.p.render_visible = TRUE,
                                   !.p.invulnerable = PLAYER_RESPAWN_INVULN + PLAYER_DEATH_INVULN]

begin_reverse_traverse(w, target_direction) ==
    LET target == IF target_direction = None THEN 0 - w.p.direction ELSE target_direction
    IN  IF w.p.reverse_in_progress \/ target = w.p.direction THEN w
        ELSE [w EXCEPT !.p.reverse_in_progress = TRUE,
                       !.p.pending_speed = Max(Abs(w.p.velocity_x), PLAYER_CRUISE_SPEED),
                       !.p.velocity_x = 0,
                       !.p.pending_direction = target,
                       !.p.lead_start = w.p.lead_current,
                       !.p.lead_target = (SCREEN_WIDTH \div 4) * target,
                       !.p.lead_timer = 0,
                       !.p.lead_animating = TRUE,
                       !.p.throttle_active = FALSE]

\* 0.5 - 0.5 * cos(pi * progress), times 1000, for progress = elapsed / duration
Ease1000(elapsed, duration) ==
    LET progress == clamp((elapsed * 1000) \div duration, 0, 1000)
    IN  (1000 - Sin1000((progress * 3142) \div 1000 + 1571)) \div 2

\* the eight pieces of spawn_hyperspace_shards: offset of the piece from the
\* ship centre and the horizontal travel direction * extent (1062 pixels)
ShardPieces ==
    << [ox |-> 0 - 20, dx |-> 0 - 751], [ox |-> 0 - 1, dx |-> 0], [ox |-> 19, dx |-> 751],
       [ox |-> 0 - 20, dx |-> 0 - 1062], [ox |-> 19, dx |-> 1062],
       [ox |-> 0 - 20, dx |-> 0 - 751], [ox |-> 0 - 1, dx |-> 0], [ox |-> 19, dx |-> 751] >>

spawn_hyperspace_shards(w, outward) ==
    LET piece(i) ==
            LET start == w.p.x + ShardPieces[i].ox
                target == start + ShardPieces[i].dx
            IN  [start |-> IF outward THEN start ELSE target,
                 target |-> IF outward THEN target ELSE start,
                 x |-> IF outward THEN start ELSE target,
                 elapsed |-> 0, inward |-> ~outward]
    IN  [w EXCEPT !.sh = @ \o [i \in 1..Len(ShardPieces) |-> piece(i)],
                  !.p.hyperspace_inbound_shards = IF outward THEN 0 ELSE Len(ShardPieces)]

\* a teleport that starts whenever the phase is idle, cooldown or not
start_hyperspace_anytime(w) ==
    IF w.p.hyperspace_state /= "idle" THEN w
    ELSE spawn_hyperspace_shards(
             [w EXCEPT !.p.hyperspace_entry_direction = w.p.direction,
                       !.p.hyperspace_entry_lead = w.p.lead_current,
                       !.p.hyperspace_entry_velocity = w.p.velocity_x,
                       !.p.hyperspace_entry_pending = w.p.pending_speed,
                       !.p.hyperspace_entry_throttle = w.p.throttle_active,
                       !.p.hyperspace_inbound_shards = 0,
                       !.p.hyperspace_state = "vanish",
                       !.p.hyperspace_timer = 0,
                       !.p.controls_lock = Max(@, HYPERSPACE_LOCK_DURATION),
                       !.p.throttle_active = FALSE],
             TRUE)

start_hyperspace(w) ==
    IF w.p.hyperspace_state /= "idle" \/ w.g.hyperspace_cooldown > 0 THEN w
    ELSE spawn_hyperspace_shards(
             [w EXCEPT !.p.hyperspace_entry_direction = w.p.direction,
                       !.p.hyperspace_entry_lead = w.p.lead_current,
                       !.p.hyperspace_entry_velocity = w.p.velocity_x,
                       !.p.hyperspace_entry_pending = w.p.pending_speed,
                       !.p.hyperspace_entry_throttle = w.p.throttle_active,
                       !.p.hyperspace_inbound_shards = 0,
                       !.p.hyperspace_state = "vanish",
                       !.p.hyperspace_timer = 0,
                       !.p.controls_lock = Max(@, HYPERSPACE_LOCK_DURATION),
                       !.p.throttle_active = FALSE],
             TRUE)

\* DefenderGame.is_hyperspace_safe, x in pixels and y in YU
is_hyperspace_safe(w, x, y) ==
    /\ ~(y < terrain_height(x) + 60 * YU \/ y > (SCREEN_HEIGHT - 80) * YU)
    /\ \A i \in 1..Len(w.e) :
          ~(Abs(shortest_offset(w.e[i].x, x)) < 80 /\ Abs(w.e[i].y - y) < 80 * YU)
    /\ \A i \in 1..Len(w.s) :
          w.s[i].mine =>
              ~(Abs(shortest_offset(w.s[i].x, x)) < 70 /\ Abs(w.s[i].y - y) < 70 * YU)

\* r.cand: the candidates random.uniform draws, three tried and the one drawn
\* after the loop
perform_hyperspace_jump(w, r) ==
    LET safe_ones == {i \in 1..3 : is_hyperspace_safe(w, r.cand[i].x, r.cand[i].y)}
        safe == safe_ones /= {}
        first == CHOOSE i \in safe_ones : \A j \in safe_ones : i <= j
        destination == IF safe THEN r.cand[first] ELSE r.cand[4]
        w1 == [w EXCEPT !.p.x = destination.x,
                        !.p.y = destination.y,
                        !.p.direction = w.p.hyperspace_entry_direction,
                        !.p.velocity_x = PLAYER_CRUISE_SPEED * w.p.hyperspace_entry_direction,
                        !.p.pending_speed = PLAYER_CRUISE_SPEED,
                        !.p.controls_lock = Max(@, HYPERSPACE_LOCK_DURATION - HYPERSPACE_VANISH_TIME),
                        !.g.radar_blink_timer = 160,
                        !.g.radar_warning = ~safe]
        w2 == IF safe THEN w1 ELSE hit(w1)
    IN  [w2 EXCEPT !.p.lead_current = w.p.hyperspace_entry_lead,
                   !.p.lead_start = w.p.hyperspace_entry_lead,
                   !.p.lead_target = w.p.hyperspace_entry_lead,
                   !.p.lead_animating = FALSE]

update_hyperspace(w, dt, r) ==
    LET t == w.p.hyperspace_timer + dt
        st == w.p.hyperspace_state
        w0 == [w EXCEPT !.p.hyperspace_timer = t]
    IN  CASE st = "idle" -> w
          [] st = "vanish" ->
                IF t >= HYPERSPACE_VANISH_TIME
                THEN [perform_hyperspace_jump(
                          [w0 EXCEPT !.p.render_visible = FALSE,
                                     !.p.hyperspace_state = "jump",
                                     !.p.hyperspace_timer = 0], r)
                      EXCEPT !.p.velocity_x = 0, !.p.pending_speed = 0,
                             !.p.throttle_active = FALSE]
                ELSE w0
          [] st = "jump" ->
                IF t >= HYPERSPACE_REAPPEAR_DELAY
                THEN spawn_hyperspace_shards(
                         [w0 EXCEPT !.p.hyperspace_state = "reappear",
                                    !.p.hyperspace_timer = 0], FALSE)
                ELSE w0
          [] st = "reappear" ->
                IF t >= HYPERSPACE_REAPPEAR_TIME /\ w.p.hyperspace_inbound_shards = 0
                THEN [w0 EXCEPT !.p.render_visible = FALSE,
                                !.p.hyperspace_state = "stabilize",
                                !.p.hyperspace_timer = 0,
                                !.p.direction = w.p.hyperspace_entry_direction]
                ELSE [w0 EXCEPT !.p.render_visible = FALSE]
          [] OTHER ->
                IF t >= HYPERSPACE_STABILIZE_TIME
                THEN [w0 EXCEPT !.p.hyperspace_state = "idle",
                                !.p.hyperspace_timer = 0,
                                !.p.render_visible = TRUE,
                                !.p.velocity_x = w.p.hyperspace_entry_velocity,
                                !.p.pending_speed = Max(Abs(w.p.hyperspace_entry_velocity),
                                                        PLAYER_CRUISE_SPEED),
                                !.p.throttle_active = w.p.hyperspace_entry_throttle,
                                !.g.hyperspace_cooldown = HYPERSPACE_COOLDOWN]
                ELSE w0

\* Player.fire
fire(w) ==
    [w EXCEPT !.l = Append(@, [x |-> wrap_position(w.p.x + w.p.direction * (SpriteW("player") \div 2 - 2)),
                               y |-> w.p.y, dir |-> w.p.direction,
                               vx |-> w.p.direction * PLAYER_BULLET_SPEED,
                               ttl |-> 480, rl |-> 0, rt |-> 0])]

\* Player.update.  keys: the held keys (left, right, up, down, space).
\* fire_cooldown is only ever compared with 0 and reset, so it is kept at 0
\* once it has run out instead of decreasing without bound.
PlayerUpdate(w, dt, keys, r) ==
    LET lock == Max(0, w.p.controls_lock - dt)
        ix == IF lock > 0 THEN 0
              ELSE (IF keys.right THEN 1 ELSE 0) - (IF keys.left THEN 1 ELSE 0)
        iy0 == (IF keys.down THEN 1 ELSE 0) - (IF keys.up THEN 1 ELSE 0)
        \* input_vector.normalize(): 707/1000 on a diagonal
        iy == IF lock > 0 THEN 0
              ELSE IF keys.left /= keys.right /\ iy0 /= 0 THEN iy0 * 707 ELSE iy0 * 1000
        desired_dir == ix
        \* the opposite key starts a reversal
        Turn(v) ==
            IF desired_dir /= 0 /\ ~v.p.reverse_in_progress /\ desired_dir /= v.p.direction
            THEN begin_reverse_traverse(v, desired_dir) ELSE v
        \* the horizontal velocity when no reversal is in progress
        FreeV(v) ==
            LET accel == v.p.velocity_x + desired_dir * Scale(PLAYER_ACCEL, dt)
                cruise == PLAYER_CRUISE_SPEED * (IF accel >= 0 THEN 1 ELSE 0 - 1)
                damped == accel - Scale(ENGINE_DAMPING, dt) * (IF accel > 0 THEN 1 ELSE 0 - 1)
                idle_v == IF Abs(accel) > Abs(cruise)
                          THEN (IF Abs(damped) < Abs(cruise) THEN cruise ELSE damped)
                          ELSE cruise
            IN  clamp(IF desired_dir /= 0 THEN accel ELSE idle_v,
                      0 - PLAYER_MAX_SPEED, PLAYER_MAX_SPEED)
        Thrust(v, free_v) ==
            IF v.p.reverse_in_progress
            THEN [v EXCEPT !.p.velocity_x = Max(@ - Scale(ENGINE_DAMPING, dt),
                                                PLAYER_CRUISE_SPEED * v.p.direction),
                           !.p.throttle_active = FALSE]
            ELSE [v EXCEPT !.p.velocity_x = free_v,
                           !.p.pending_speed = Max(@, Abs(free_v)),
                           !.p.throttle_active = desired_dir /= 0]
        \* the camera lead: the traverse animation or the resting lead
        Lead(v) ==
            LET lt == v.p.lead_timer + dt
                smooth == Ease1000(lt, 1350)
                wl == [v EXCEPT !.p.lead_current = (SCREEN_WIDTH \div 4) * v.p.direction]
            IN  IF v.p.lead_animating
                THEN IF lt >= 1350
                     THEN [v EXCEPT !.p.lead_timer = lt,
                                    !.p.lead_animating = FALSE,
                                    !.p.lead_current = v.p.lead_target,
                                    !.p.direction = v.p.pending_direction,
                                    !.p.reverse_in_progress = FALSE,
                                    !.p.velocity_x = v.p.pending_speed * v.p.pending_direction,
                                    !.p.throttle_active = FALSE]
                     ELSE [v EXCEPT !.p.lead_timer = lt,
                                    !.p.lead_current = v.p.lead_start
                                        + ((v.p.lead_target - v.p.lead_start) * smooth) \div 1000]
                ELSE IF desired_dir /= 0 /\ desired_dir /= v.p.direction
                     THEN begin_reverse_traverse(wl, desired_dir) ELSE wl
        Move(v, effective_vx) ==
            IF v.p.hyperspace_state /= "idle"
            THEN [v EXCEPT !.p.x = wrap_position(@),
                           !.p.y = clamp(@, PLAYFIELD_TOP * YU, (SCREEN_HEIGHT - 40) * YU)]
            ELSE [v EXCEPT !.p.x = wrap_position(@ + Scale(effective_vx, dt)),
                           !.p.y = clamp(@ + Scale((iy * PLAYER_VERTICAL_SPEED * YU) \div 1000, dt),
                                         PLAYFIELD_TOP * YU, (SCREEN_HEIGHT - 40) * YU)]
        Shoot(v) ==
            IF keys.space /\ Max(0, v.p.fire_cooldown - dt) <= 0
            THEN [fire(v) EXCEPT !.p.fire_cooldown = PLAYER_FIRE_COOLDOWN,
                                 !.p.invulnerable = IF @ > 0 THEN @ - dt ELSE @]
            ELSE [v EXCEPT !.p.fire_cooldown = Max(0, @ - dt),
                           !.p.invulnerable = IF @ > 0 THEN @ - dt ELSE @]
        Carry(v) ==
            IF v.p.held_human = None THEN v
            ELSE [v EXCEPT !.h[v.p.held_human] =
                               [attach_to_player(@) EXCEPT
                                    !.x = wrap_position(v.p.x),
                                    !.y = v.p.y + (SpriteH("player") \div 2
                                          + SpriteH("human") \div 2 - 6) * YU]]
        Fly(v) ==
            Carry(Shoot(Move(Lead(Thrust(v, FreeV(v))),
                             IF v.p.reverse_in_progress THEN 0 ELSE FreeV(v))))
    IN  check_extra_life(
            update_hyperspace(Fly(Turn([w EXCEPT !.p.controls_lock = lock])), dt, r))

\* ------------------------------------------------------------------------
\* Enemy behaviour (src/defender.py:1262-1273, 1292-1406, 1423-1463,
\* 1517-1525, 1553-1569, 1592-1605, 1631-1666)
\* ------------------------------------------------------------------------
\* (to_player.normalize() * speed): the vector from (x, y) to the player,
\* scaled to the given length; zero when the two coincide
Toward(w, x, y, length) ==
    LET dx == shortest_offset(w.p.x, x)
        dy == w.p.y - y
        len == ISqrt(dx * dx + (dy \div YU) * (dy \div YU))
    IN  IF dx = 0 /\ dy = 0 THEN [zero |-> TRUE, x |-> 0, y |-> 0]
        ELSE IF len = 0 THEN [zero |-> FALSE, x |-> 0, y |-> (IF dy > 0 THEN 1 ELSE 0 - 1) * length * YU]
        ELSE [zero |-> FALSE, x |-> (dx * length) \div len, y |-> (dy * length) \div len]

\* Lander.fire, Mutant.fire, Baiter.fire: one EnemyShot aimed at the player
EnemyFire(w, i, speed) ==
    LET v == Toward(w, w.e[i].x, w.e[i].y, speed)
    IN  IF v.zero THEN w
        ELSE [w EXCEPT !.s = Append(@, [mine |-> FALSE, x |-> w.e[i].x, y |-> w.e[i].y,
                                        vx |-> v.x, vy |-> v.y, ttl |-> 2000,
                                        rl |-> 0, rt |-> 0])]

spawn_mine(w, x, y) ==
    [w EXCEPT !.s = Append(@, [mine |-> TRUE, x |-> x, y |-> y, vx |-> 0, vy |-> 0,
                               ttl |-> MINE_TTL, rl |-> 0, rt |-> 0])]

\* Lander.find_target: the nearest colonist on the ground that is free or
\* already reserved by this lander (the first such in group order)
find_target(w, id) ==
    LET i == EIdx(w, id)
        candidates == {k \in DOMAIN w.h : /\ w.h[k].state = "ground"
                                          /\ w.h[k].carrier = None
                                          /\ w.h[k].reserved_by \in {None, id}}
        dist(k) == Abs(shortest_offset(w.h[k].x, w.e[i].x))
    IN  IF candidates = {} THEN None
        ELSE CHOOSE k \in candidates :
                 \A j \in candidates : dist(k) < dist(j) \/ (dist(k) = dist(j) /\ k <= j)

\* a mutation that spares the carried colonist
mutate_sparing(w, id, r) ==
    LET i == EIdx(w, id)
        w2 == [w EXCEPT !.e = Remove(@, i)]
    IN  spawned_mutant(w2, w.e[i].x, w.e[i].y, r)

\* Lander.mutate
mutate(w, id, r) ==
    LET i == EIdx(w, id)
        x == w.e[i].x
        y == w.e[i].y
        t == w.e[i].target
        w1 == IF t = None THEN w ELSE die(w, t, r)
        w2 == [w1 EXCEPT !.e = Remove(@, EIdx(w1, id))]
    IN  spawned_mutant(w2, x, y, r)

\* Enemy.destroy
EnemyDestroy(w, id) ==
    LET i == EIdx(w, id)
    IN  enemy_destroyed([w EXCEPT !.e = Remove(@, i), !.p.score = @ + w.e[i].points])

\* Lander.destroy
LanderDestroy(w, id) ==
    LET i == EIdx(w, id)
        t == w.e[i].target
        w1 == IF t /= None /\ w.h[t].state = "captured"
              THEN [w EXCEPT !.h[t] = start_falling(@), !.p.score = @ + 350]
              ELSE w
    IN  EnemyDestroy(release_target(w1, id), id)

\* Pod.destroy: r.n swarmers around the pod
RECURSIVE PodBurst(_, _, _, _, _)
PodBurst(w, x, y, n, r) ==
    IF n = 0 THEN w
    ELSE PodBurst(spawn_swarmer(w, wrap_position(x + (80 * r.jit) \div 1000),
                                clamp(y + ((60 * YU * r.jit) \div 1000),
                                      (PLAYFIELD_TOP + 20) * YU, (SCREEN_HEIGHT - 140) * YU), r),
                  x, y, n - 1, r)

PodDestroy(w, id, r) ==
    LET i == EIdx(w, id)
    IN  EnemyDestroy(PodBurst(w, w.e[i].x, w.e[i].y, r.n, r), id)

\* self.destroy() dispatched on the kind of enemy
Destroy(w, id, r) ==
    LET kind == w.e[EIdx(w, id)].kind
    IN  CASE kind = "lander" -> LanderDestroy(w, id)
          [] kind = "pod" -> PodDestroy(w, id, r)
          [] OTHER -> EnemyDestroy(w, id)

\* a take_damage that takes twice the amount
take_damage_twice(w, id, amount, r) ==
    LET i == EIdx(w, id)
    IN  IF w.e[i].health - 2 * amount <= 0
        THEN Destroy([w EXCEPT !.e[i].health = @ - 2 * amount], id, r)
        ELSE [w EXCEPT !.e[i].health = @ - 2 * amount]

\* Enemy.take_damage
take_damage(w, id, amount, r) ==
    LET i == EIdx(w, id)
    IN  IF w.e[i].health - amount <= 0
        THEN Destroy([w EXCEPT !.e[i].health = @ - amount], id, r)
        ELSE [w EXCEPT !.e[i].health = @ - amount]

\* Lander.update
LanderUpdate(w, id, dt, r) ==
    LET i == EIdx(w, id)
        \* Enemy.update: drift with the velocity
        Drift(v) == [v EXCEPT !.e[i].x = wrap_position(@ + Scale(v.e[i].vx, dt))]
        \* if self.target and self.target.state == "dead"
        Notice(v) ==
            IF v.e[i].target /= None /\ v.h[v.e[i].target].state = "dead"
            THEN on_captive_removed(v, id, r) ELSE v
        \* patrolling: a target that is no longer this lander's is let go
        Release(v) ==
            LET tb == v.e[i].target
            IN  IF /\ tb /= None
                   /\ \/ v.h[tb].state /= "ground"
                      \/ v.h[tb].carrier \notin {None, id}
                      \/ v.h[tb].reserved_by \notin {None, id}
                THEN release_target(v, id) ELSE v
        \* patrolling: the nearest free colonist is reserved and becomes the target
        Reserve(v) ==
            LET candidate == find_target(v, id)
            IN  IF v.e[i].target = None /\ candidate /= None /\ reserve_ok(v.h[candidate], id)
                THEN [v EXCEPT !.h[candidate] = reserve_for_lander(@, id),
                               !.e[i].target = candidate]
                ELSE v
        \* patrolling: towards the target, or along the patrol line
        Seek(v) ==
            LET tp == v.e[i].target
                direction == IF shortest_offset(v.h[tp].x, v.e[i].x) >= 0 THEN 1 ELSE 0 - 1
                nx == wrap_position(v.e[i].x + direction * Scale(LANDER_SPEED, dt))
                pdir == IF r.flip THEN 0 - v.e[i].patrol_direction ELSE v.e[i].patrol_direction
                target_altitude == clamp(v.e[i].home_altitude, (PLAYFIELD_TOP + 40) * YU,
                                         (PLAYFIELD_TOP + 160) * YU)
            IN  IF tp /= None
                THEN [v EXCEPT !.e[i].x = nx,
                               !.e[i].state = IF Abs(shortest_offset(v.h[tp].x, nx)) < 6
                                              THEN "descending" ELSE @]
                ELSE [v EXCEPT !.e[i].patrol_direction = pdir,
                               !.e[i].x = wrap_position(@ + pdir * Scale((LANDER_SPEED * 4) \div 10, dt)),
                               !.e[i].y = @ + clamp(target_altitude - @,
                                                    0 - Scale(LANDER_DESCENT_SPEED * YU, dt),
                                                    Scale(LANDER_ASCENT_SPEED * YU, dt))]
        Descend(v) ==
            LET tb == v.e[i].target
                dy == v.e[i].y + Scale(LANDER_DESCENT_SPEED * YU, dt)
                hover == v.h[tb].y - (SpriteH("lander") \div 2 + SpriteH("human") \div 2 - 6) * YU
            IN  IF tb /= None /\ dy >= hover
                THEN [v EXCEPT !.e[i].y = hover, !.e[i].state = "ascending",
                               !.h[tb] = capture(@, id)]
                ELSE [v EXCEPT !.e[i].y = dy]
        Ascend(v) ==
            [v EXCEPT !.e[i].y = @ - Scale(LANDER_ASCENT_SPEED * YU, dt),
                      !.e[i].x = wrap_position(@ + Scale((40 * r.jit) \div 1000, dt))]
        Act(v) ==
            CASE v.e[i].state = "patrolling" -> Seek(Reserve(Release(v)))
              [] v.e[i].state = "descending" -> Descend(v)
              [] OTHER -> Ascend(v)
        Fire(v) ==
            IF v.e[i].fire_timer - dt <= 0
            THEN EnemyFire([v EXCEPT !.e[i].fire_timer = Uniform(2400, 4800, r.u)], i, 260)
            ELSE [v EXCEPT !.e[i].fire_timer = @ - dt]
        Step(v) ==
            IF /\ v.e[i].state = "ascending"
               /\ v.e[i].y - Scale(LANDER_ASCENT_SPEED * YU, dt)
                      <= Max(LANDER_MIN_ALTITUDE, PLAYFIELD_TOP) * YU
            THEN mutate(Ascend(v), id, r)
            ELSE Fire(Act(v))
    IN  Step(Notice(Drift(w)))

\* Mutant.update, Swarmer.update, Baiter.update: home in on the player
HomingUpdate(w, id, dt, r) ==
    LET i == EIdx(w, id)
        kind == w.e[i].kind
        speed == CASE kind = "mutant" -> 190 [] kind = "swarmer" -> 240 [] OTHER -> 260
        x0 == wrap_position(w.e[i].x + Scale(w.e[i].vx, dt))
        v == Toward(w, x0, w.e[i].y, Scale(speed, dt))
        x1 == IF v.zero THEN x0 ELSE wrap_position(x0 + v.x)
        y1 == IF v.zero THEN w.e[i].y ELSE w.e[i].y + v.y
        lo == CASE kind = "mutant" -> PLAYFIELD_TOP + 20 [] kind = "swarmer" -> PLAYFIELD_TOP + 20
                [] OTHER -> PLAYFIELD_TOP + 40
        hi == IF kind = "mutant" THEN SCREEN_HEIGHT - 80 ELSE SCREEN_HEIGHT - 140
        y2 == IF kind = "mutant" /\ v.zero THEN y1 ELSE clamp(y1, lo * YU, hi * YU)
        x2 == IF kind = "swarmer" THEN wrap_position(x1 + Scale((80 * r.jit) \div 1000, dt)) ELSE x1
        wa == [w EXCEPT !.e[i].x = x2, !.e[i].y = y2]
        ft == w.e[i].fire_timer - dt
    IN  IF kind = "swarmer" THEN wa
        ELSE IF ft <= 0
             THEN EnemyFire([wa EXCEPT !.e[i].fire_timer =
                                 IF kind = "mutant" THEN Uniform(1200, 2000, r.u)
                                 ELSE Uniform(900, 1600, r.u)], i, 340)
             ELSE [wa EXCEPT !.e[i].fire_timer = ft]

\* Bomber.update and Pod.update; r.sn stands for math.sin(get_ticks() ...) in thousandths
DrifterUpdate(w, id, dt, r) ==
    LET i == EIdx(w, id)
        kind == w.e[i].kind
        x0 == wrap_position(w.e[i].x + Scale(w.e[i].vx, dt))
        bx == wrap_position(x0 + w.e[i].patrol_direction * Scale(150, dt))
        by == clamp(w.e[i].y + Scale((r.sn * 20 * YU) \div 1000, dt),
                    (PLAYFIELD_TOP + 60) * YU, (SCREEN_HEIGHT - 140) * YU)
        dtm == w.e[i].drop_timer - dt
        px == wrap_position(x0 + Scale(w.e[i].vx, dt))
        py == clamp(w.e[i].y + Scale((r.sn * 90 * YU) \div 1000, dt),
                    (PLAYFIELD_TOP + 80) * YU, (PLAYFIELD_TOP + 240) * YU)
    IN  IF kind = "bomber"
        THEN IF dtm <= 0
             THEN spawn_mine([w EXCEPT !.e[i].x = bx, !.e[i].y = by,
                                       !.e[i].drop_timer = Uniform(1800, 3600, r.u)],
                             bx, by + 20 * YU)
             ELSE [w EXCEPT !.e[i].x = bx, !.e[i].y = by, !.e[i].drop_timer = dtm]
        ELSE [w EXCEPT !.e[i].x = px, !.e[i].y = py,
                       !.e[i].vx = IF r.flip THEN 0 - @ ELSE @]

\* sprite.update(dt) for one enemy of the snapshot
EnemyUpdate(w, id, dt, r) ==
    LET i == EIdx(w, id)
    IN  IF i = 0 THEN w
        ELSE CASE w.e[i].kind = "lander" -> LanderUpdate(w, id, dt, r)
               [] w.e[i].kind \in {"bomber", "pod"} -> DrifterUpdate(w, id, dt, r)
               [] OTHER -> HomingUpdate(w, id, dt, r)

\* a safe landing that rewards without looking at the one-shot flag
safe_landing_unflagged(w, k) ==
    [Emit(w, "popup", w.h[k].x, w.h[k].y)
     EXCEPT !.p.score = @ + 250, !.h[k].safe_landing_rewarded = TRUE]

\* DefenderGame.colonist_safe_landing
colonist_safe_landing(w, k) ==
    IF w.h[k].safe_landing_rewarded THEN w
    ELSE [Emit(w, "popup", w.h[k].x, w.h[k].y)
          EXCEPT !.p.score = @ + 250, !.h[k].safe_landing_rewarded = TRUE]

\* the thresholds of Human.update on the height fallen, in YU
full_span == (SCREEN_HEIGHT - PLAYFIELD_TOP) * YU

lethal_height == full_span \div 3

catastrophic_height == (full_span * 3) \div 4

\* an outcome that is already lethal at the lethal height
landing_outcome_strict(drop_height) ==
    IF drop_height >= catastrophic_height THEN "explosion"
    ELSE IF drop_height >= lethal_height THEN "crater"
    ELSE "ground"

\* an outcome that is already catastrophic at nine tenths of that height
landing_outcome_early(drop_height) ==
    IF 10 * drop_height >= 9 * catastrophic_height THEN "explosion"
    ELSE IF drop_height > lethal_height THEN "crater"
    ELSE "ground"

\* the outcome Human.update decides on reaching the ground
landing_outcome(drop_height) ==
    IF drop_height >= catastrophic_height THEN "explosion"
    ELSE IF drop_height > lethal_height THEN "crater"
    ELSE "ground"

\* Human.update
HumanUpdate(w, k, dt) ==
    LET hu == w.h[k]
        vy == Min(hu.vy + Scale(GRAVITY * YU, dt), TERMINAL_VELOCITY * YU)
        y1 == hu.y + Scale(vy, dt)
        ground == terrain_height(hu.x)
        rest == ground - (SpriteH("human") \div 2) * YU
        drop_height == Max(0, ground - hu.drop_start_y)
        outcome == landing_outcome(drop_height)
        landed == [hu EXCEPT !.vy = 0, !.y = rest]
        ci == IF hu.carrier = None \/ hu.carrier = PLAYER THEN 0 ELSE EIdx(w, hu.carrier)
    IN  CASE hu.state = "falling" ->
               IF y1 >= rest
               THEN IF outcome = "ground"
                    THEN colonist_safe_landing(
                             [w EXCEPT !.h[k] = [landed EXCEPT !.state = "ground"]], k)
                    ELSE Emit([w EXCEPT !.h[k] = [landed EXCEPT !.state = "dead"]],
                              outcome, hu.x, rest)
               ELSE [w EXCEPT !.h[k].vy = vy, !.h[k].y = y1]
          [] hu.state = "captured" /\ hu.carrier /= None ->
               IF ci = 0 THEN w
               ELSE [w EXCEPT !.h[k].x = w.e[ci].x,
                              !.h[k].y = w.e[ci].y + (SpriteH("lander") \div 2
                                         + SpriteH("human") \div 2 - 4) * YU]
          [] hu.state = "carried" /\ hu.carrier /= None ->
               [w EXCEPT !.h[k].x = w.p.x,
                         !.h[k].y = w.p.y + (SpriteH("player") \div 2
                                    + SpriteH("human") \div 2 - 6) * YU,
                         !.h[k].vy = 0]
          [] hu.state = "carried" -> [w EXCEPT !.h[k] = start_falling(hu)]
          [] OTHER -> w

\* Laser.update, EnemyShot.update, Mine.update: move, age, die at ttl 0
ProjectileUpdate(seq, dt) ==
    LET moved == [i \in 1..Len(seq) |->
                     [seq[i] EXCEPT !.x = wrap_position(@ + Scale(seq[i].vx, dt)),
                                    !.y = IF "vy" \in DOMAIN seq[i] THEN @ + Scale(seq[i].vy, dt) ELSE @,
                                    !.ttl = @ - dt]]
    IN  SelectSeq(moved, LAMBDA q : q.ttl > 0)

\* HyperspaceShard.update; the shards that finish notify the player when inward
ShardUpdate(w, dt) ==
    LET moved == [i \in 1..Len(w.sh) |->
                     LET el == w.sh[i].elapsed + dt
                     IN  [w.sh[i] EXCEPT !.elapsed = el,
                                         !.x = w.sh[i].start + ((w.sh[i].target - w.sh[i].start)
                                               * Ease1000(el, 1350)) \div 1000]]
        done == {i \in 1..Len(moved) : moved[i].elapsed >= 1350 /\ moved[i].inward}
    IN  [w EXCEPT !.sh = SelectSeq(moved, LAMBDA q : q.elapsed < 1350),
                  !.p.hyperspace_inbound_shards = Max(0, @ - Cardinality(done))]

\* ------------------------------------------------------------------------
\* Sessions and the demonstration (src/defender.py:1741-1755, 2342-2360,
\* 2362-2495, 2532-2546)
\* ------------------------------------------------------------------------
setup_world(w, r) ==
    LET w1 == repopulate_humans([w EXCEPT !.e = <<>>, !.l = <<>>, !.s = <<>>, !.sh = <<>>])
        \* every sprite of the old world is gone and nothing refers to one,
        \* so the names of the enemies start again at 1
        w2 == [w1 EXCEPT !.p = NewPlayer,
                         !.g.next_id = 1,
                         !.g.wave = 1,
                         !.g.total_wave_aliens = 0,
                         !.g.remaining_aliens = 0]
        w3 == IF w.g.mode = "playing" THEN start_wave(w2, r) ELSE w2
    IN  [w3 EXCEPT !.g.ground_destroyed = FALSE]

start_demo(w, r) ==
    IF w.g.demo_active THEN w
    ELSE start_wave(
             setup_world([w EXCEPT !.g.demo_prev_no_death = w.g.no_death,
                                   !.g.demo_active = TRUE,
                                   !.g.mode = "demo",
                                   !.g.title_timer = 0,
                                   !.g.demo_stage = "prime_capture",
                                   !.g.demo_stage_timer = 0,
                                   !.g.demo_target_lander = None,
                                   !.g.demo_target_human = None,
                                   !.g.demo_mutant_observed = FALSE,
                                   !.g.no_death = FALSE], r),
             r)

stop_demo(w, r) ==
    IF ~w.g.demo_active /\ w.g.mode /= "demo"
    THEN [w EXCEPT !.g.mode = "title", !.g.title_timer = 0]
    ELSE setup_world([w EXCEPT !.g.demo_active = FALSE,
                               !.g.demo_stage = "none",
                               !.g.demo_target_lander = None,
                               !.g.demo_target_human = None,
                               !.g.demo_mutant_observed = FALSE,
                               !.g.no_death = w.g.demo_prev_no_death,
                               !.g.mode = "title",
                               !.g.title_timer = 0], r)

\* nearest_lander(reference_x) of update_demo: id of the nearest Lander or None
nearest_lander(w, reference_x) ==
    LET landers == {i \in 1..Len(w.e) : w.e[i].kind = "lander"}
        dist(i) == Abs(shortest_offset(w.e[i].x, reference_x))
    IN  IF landers = {} THEN None
        ELSE w.e[CHOOSE i \in landers :
                     \A j \in landers : dist(i) < dist(j) \/ (dist(i) = dist(j) /\ i <= j)].id

\* random.choice(ground_humans) for a draw u in 0..1000
ChooseGroundHuman(w, u) ==
    LET ground == {k \in DOMAIN w.h : w.h[k].state = "ground"}
        rank(k) == Cardinality({j \in ground : j < k})
    IN  IF ground = {} THEN None
        ELSE CHOOSE k \in ground : rank(k) = (u * Cardinality(ground)) \div 1001

\* update_demo: the stage machine and what it does to the world; the key
\* commands it issues are the keys input of the frame
update_demo(w, dt, r) ==
    LET stage == IF w.g.demo_stage = "none" THEN "prime_capture" ELSE w.g.demo_stage
        timer == (IF w.g.demo_stage = "none" THEN 0 ELSE w.g.demo_stage_timer) + dt
        w0 == [w EXCEPT !.g.demo_stage = stage, !.g.demo_stage_timer = timer]
        th == w0.g.demo_target_human
        tl == w0.g.demo_target_lander
        goto(ww, st) == [ww EXCEPT !.g.demo_stage = st, !.g.demo_stage_timer = 0]
        \* prime_capture
        Repick(v) ==
            IF v.g.demo_target_human = None
               \/ v.h[v.g.demo_target_human].state \in {"dead", "captured"}
            THEN [v EXCEPT !.g.demo_target_human = ChooseGroundHuman(v, r.u),
                           !.g.demo_stage_timer = 0]
            ELSE v
        PickLander(v) ==
            IF ~Alive(v, v.g.demo_target_lander)
            THEN [v EXCEPT !.g.demo_target_lander =
                               nearest_lander(v, v.h[v.g.demo_target_human].x)]
            ELSE v
        ReserveDemo(v) ==
            IF v.g.demo_target_lander /= None /\ v.h[v.g.demo_target_human].state = "ground"
            THEN [v EXCEPT !.h[v.g.demo_target_human] =
                               reserve_for_lander(@, v.g.demo_target_lander)]
            ELSE v
        Captured(v) ==
            IF v.h[v.g.demo_target_human].state = "captured" THEN goto(v, "rescue") ELSE v
        Prime(v) ==
            IF v.g.demo_target_human /= None
            THEN Captured(ReserveDemo(PickLander(v)))
            ELSE IF v.g.demo_stage_timer > 10000
                 THEN spawn_wave_enemies([v EXCEPT !.g.demo_stage_timer = 0], r)
                 ELSE v
        \* rescue
        rescue == IF ~Alive(w0, tl) THEN goto(w0, "pickup")
                  ELSE IF th /= None /\ w0.h[th].state = "falling" THEN goto(w0, "pickup")
                  ELSE w0
        \* pickup
        pickup == IF th = None \/ w0.h[th].state = "dead" THEN goto(w0, "allow_mutate")
                  ELSE IF w0.h[th].state = "ground" THEN goto(w0, "allow_mutate")
                  ELSE IF w0.p.held_human /= None THEN goto(w0, "deliver")
                  ELSE w0
        \* deliver
        deliver == IF th = None THEN goto(w0, "allow_mutate")
                   ELSE IF w0.p.held_human = None /\ w0.h[th].state = "ground"
                        THEN [goto(w0, "allow_mutate") EXCEPT !.g.demo_target_lander = None,
                                                              !.g.demo_target_human = None]
                        ELSE w0
        \* allow_mutate
        Rechoose(v) ==
            IF v.g.demo_target_human = None \/ v.h[v.g.demo_target_human].state = "dead"
            THEN [v EXCEPT !.g.demo_target_human = ChooseGroundHuman(v, r.u),
                           !.g.demo_stage_timer = 0]
            ELSE v
        Follow(v) ==
            LET mth == v.g.demo_target_human
            IN  IF mth /= None /\ v.h[mth].state = "captured"
                THEN [v EXCEPT !.g.demo_target_lander = v.h[mth].carrier]
                ELSE v
        Nearest(v) ==
            LET mth == v.g.demo_target_human
            IN  IF mth /= None /\ v.h[mth].state = "ground" /\ ~Alive(v, v.g.demo_target_lander)
                THEN [v EXCEPT !.g.demo_target_lander = nearest_lander(v, v.h[mth].x)]
                ELSE v
        ReserveAgain(v) ==
            LET mth == v.g.demo_target_human
            IN  IF mth /= None /\ v.h[mth].state = "ground" /\ v.g.demo_target_lander /= None
                THEN [v EXCEPT !.h[mth] = reserve_for_lander(@, v.g.demo_target_lander)]
                ELSE v
        Forget(v) ==
            IF ~Alive(v, v.g.demo_target_lander)
            THEN [v EXCEPT !.g.demo_target_lander = None] ELSE v
        Refill(v) ==
            IF \E i \in 1..Len(v.e) : v.e[i].kind = "lander" THEN v
            ELSE spawn_wave_enemies(v, r)
        Observed(v) ==
            IF v.g.demo_mutant_observed
            THEN [goto(v, "finished") EXCEPT !.g.demo_mutant_observed = FALSE]
            ELSE v
        \* finished
        finished == IF timer > 8000
                    THEN [goto(w0, "prime_capture") EXCEPT !.g.demo_target_human = None,
                                                           !.g.demo_target_lander = None]
                    ELSE w0
    IN  CASE stage = "prime_capture" -> Prime(Repick(w0))
          [] stage = "rescue" -> rescue
          [] stage = "pickup" -> pickup
          [] stage = "deliver" -> deliver
          [] stage = "allow_mutate" ->
                 Observed(Refill(Forget(ReserveAgain(Nearest(Follow(Rechoose(w0)))))))
          [] OTHER -> finished

\* ------------------------------------------------------------------------
\* Collisions and interactions (src/defender.py:2053-2068, 2189-2260, 2548-2556)
\* ------------------------------------------------------------------------
sprite_visible(sp, kind, margin) ==
    /\ sp.rl + SpriteW(kind) >= 0 - margin
    /\ sp.rl <= SCREEN_WIDTH + margin
    /\ sp.rt + SpriteH(kind) >= HUD_HEIGHT - margin
    /\ sp.rt <= SCREEN_HEIGHT + margin

\* the members of seq at the positions not in dropped
Without(seq, dropped) ==
    LET keep == {i \in 1..Len(seq) : i \notin dropped}
        nth(n) == CHOOSE i \in keep : Cardinality({j \in keep : j < i}) = n - 1
    IN  [n \in 1..Cardinality(keep) |-> seq[nth(n)]]

\* Player lasers vs enemies, over the snapshot list(self.enemies)
RECURSIVE LasersVsEnemies(_, _, _, _)
LasersVsEnemies(w, ids, n, r) ==
    IF n > Len(ids) THEN w
    ELSE LET i == EIdx(w, ids[n])
             en == w.e[i]
             hits == {j \in 1..Len(w.l) : collide_rect(en, en.kind, w.l[j], "laser")}
             w1 == take_damage(w, ids[n], 1, r)
             w2 == IF Alive(w1, ids[n]) THEN w1 ELSE Emit(w1, "explosion", en.x, en.y)
         IN  IF i = 0 \/ ~sprite_visible(en, en.kind, 8) \/ hits = {}
             THEN LasersVsEnemies(w, ids, n + 1, r)
             ELSE LasersVsEnemies([w2 EXCEPT !.l = Without(@, hits)], ids, n + 1, r)

\* Player lasers vs colonists
RECURSIVE LasersVsHumans(_, _, _)
LasersVsHumans(w, k, r) ==
    IF k > HUMAN_COUNT THEN w
    ELSE LET hits == {j \in 1..Len(w.l) : collide_rect(w.h[k], "human", w.l[j], "laser")}
         IN  IF w.h[k].state = "dead" \/ hits = {}
             THEN LasersVsHumans(w, k + 1, r)
             ELSE LasersVsHumans(
                      [Emit(die(w, k, r), "explosion", w.h[k].x, w.h[k].y)
                       EXCEPT !.l = Without(@, hits)], k + 1, r)

\* spritecollide(self.player, self.enemies, False)
PlayerTouchesEnemy(w) ==
    \E i \in 1..Len(w.e) : collide_rect(w.p, "player", w.e[i], w.e[i].kind)

\* the enemy shots and mines whose rectangle overlaps the player
ShotsOnPlayer(w) ==
    {j \in 1..Len(w.s) : collide_rect(w.p, "player", w.s[j], ShotKind(w.s[j]))}

\* contacts that take one life for each hostile on the ship
PlayerContactsEach(w) ==
    LET n == Cardinality({i \in 1..Len(w.e) : collide_rect(w.p, "player", w.e[i], w.e[i].kind)})
    IN  IF w.p.invulnerable <= 0 /\ n > 0
        THEN [hit(Emit(w, "explosion", w.p.x, w.p.y)) EXCEPT !.p.lives = @ - (n - 1)]
        ELSE w

\* Player vs enemies, then player vs enemy shots, each gated by invulnerability
PlayerContacts(w) ==
    LET w1 == IF w.p.invulnerable <= 0 /\ PlayerTouchesEnemy(w)
              THEN hit(Emit(w, "explosion", w.p.x, w.p.y)) ELSE w
        shots == ShotsOnPlayer(w1)
        w2 == [w1 EXCEPT !.s = Without(@, shots)]
    IN  IF w1.p.invulnerable <= 0
        THEN (IF shots /= {} THEN hit(Emit(w2, "explosion", w2.p.x, w2.p.y)) ELSE w2)
        ELSE w1

\* enemy shots that pass through the colonists
ShotsThroughHumans(w) == w

\* enemy shots that touch a living colonist are consumed
ShotsVsHumans(w) ==
    LET gone == {j \in 1..Len(w.s) :
                    \E k \in DOMAIN w.h : /\ w.h[k].state /= "dead"
                                          /\ collide_rect(w.h[k], "human", w.s[j], ShotKind(w.s[j]))}
    IN  [w EXCEPT !.s = Without(@, gone)]

EnemyIds(w) == [i \in 1..Len(w.e) |-> w.e[i].id]

handle_collisions(w, r) ==
    ShotsVsHumans(PlayerContacts(LasersVsHumans(LasersVsEnemies(w, EnemyIds(w), 1, r), 1, r)))

\* an interaction step that sets the colonist down at any altitude
handle_human_interactions_aloft(w) ==
    LET falling == {k \in DOMAIN w.h : w.h[k].state = "falling"
                                       /\ collide_rect(w.p, "player", w.h[k], "human")}
        first == CHOOSE k \in falling : \A j \in falling : k <= j
        carried == w.p.held_human
        ground_target == terrain_height(w.h[carried].x) - (SpriteH("human") \div 2) * YU
    IN  IF carried = None
        THEN IF falling = {} THEN w
             ELSE [Emit(pickup_human(w, first), "popup", w.h[first].x, w.h[first].y)
                   EXCEPT !.p.score = @ + 250]
        ELSE [Emit(deliver_human(w), "popup", w.p.x, ground_target)
              EXCEPT !.p.score = @ + 250]

handle_human_interactions(w) ==
    LET falling == {k \in DOMAIN w.h : w.h[k].state = "falling"
                                       /\ collide_rect(w.p, "player", w.h[k], "human")}
        first == CHOOSE k \in falling : \A j \in falling : k <= j
        carried == w.p.held_human
        ground_target == terrain_height(w.h[carried].x) - (SpriteH("human") \div 2) * YU
    IN  IF carried = None
        THEN IF falling = {} THEN w
             ELSE [Emit(pickup_human(w, first), "popup", w.h[first].x, w.h[first].y)
                   EXCEPT !.p.score = @ + 250]
        ELSE IF w.p.y >= ground_target - 12 * YU
             THEN [Emit(deliver_human(w), "popup", w.p.x, ground_target)
                   EXCEPT !.p.score = @ + 250]
             ELSE w

RECURSIVE MutateAll(_, _, _, _)
MutateAll(w, ids, n, r) ==
    IF n > Len(ids) THEN w
    ELSE LET i == EIdx(w, ids[n])
         IN  IF i /= 0 /\ w.e[i].kind = "lander"
             THEN MutateAll(mutate(w, ids[n], r), ids, n + 1, r)
             ELSE MutateAll(w, ids, n + 1, r)

transform_landers(w, r) ==
    LET w1 == MutateAll(w, EnemyIds(w), 1, r)
    IN  IF w1.g.ground_destroyed THEN w1
        ELSE Emit([w1 EXCEPT !.g.ground_destroyed = TRUE], "ground_eruption", 0, 0)

RECURSIVE BombAll(_, _, _, _)
BombAll(w, ids, n, r) ==
    IF n > Len(ids) THEN w
    ELSE LET i == EIdx(w, ids[n])
             en == w.e[i]
             screen_x == world_to_screen(en.x, w.g.camera_x)
         IN  IF i /= 0 /\ 0 - SpriteW(en.kind) <= screen_x
                       /\ screen_x <= SCREEN_WIDTH + SpriteW(en.kind)
             THEN BombAll(take_damage(Emit(w, "explosion", en.x, en.y), ids[n], en.health, r),
                          ids, n + 1, r)
             ELSE BombAll(w, ids, n + 1, r)

activate_smart_bomb(w, r) ==
    LET w1 == BombAll([w EXCEPT !.g.smart_bombs = @ - 1], EnemyIds(w), 1, r)
        mines == {j \in 1..Len(w1.s) :
                     /\ w1.s[j].mine
                     /\ 0 - 12 <= world_to_screen(w1.s[j].x, w.g.camera_x)
                     /\ world_to_screen(w1.s[j].x, w.g.camera_x) <= SCREEN_WIDTH + 12}
    IN  IF w.g.smart_bombs <= 0 THEN w
        ELSE [w1 EXCEPT !.s = Without(@, mines)]

\* ------------------------------------------------------------------------
\* DefenderGame.__init__ (src/defender.py:1693-1739)
\* ------------------------------------------------------------------------
demo_duration == 15000

NoTimer == [active |-> FALSE, time_left |-> 0]

NewGame ==
    [mode |-> "title", no_death |-> FALSE, ground_destroyed |-> FALSE,
     wave |-> 1, total_wave_aliens |-> 0, remaining_aliens |-> 0,
     wave_timer |-> 0, baiter_spawned |-> FALSE, pending_spawns |-> <<>>,
     smart_bombs |-> 0, hyperspace_cooldown |-> 0, radar_blink_timer |-> 0,
     radar_warning |-> FALSE, spawn_sequence |-> 0,
     demo_active |-> FALSE, demo_stage |-> "none", demo_stage_timer |-> 0,
     demo_target_lander |-> None, demo_target_human |-> None,
     demo_mutant_observed |-> FALSE, demo_prev_no_death |-> FALSE,
     title_timer |-> 0, camera_x |-> 0, respawn_timer |-> NoTimer, next_id |-> 1]

\* the draw that leaves every random choice at the low end of its range
Calm == [u |-> 0, dir |-> 1, flip |-> FALSE, sn |-> 0, jit |-> 0, n |-> 4,
         cand |-> [i \in 1..4 |-> [x |-> 0, y |-> (PLAYFIELD_TOP + 80) * YU]]]

Constructed ==
    setup_world([g |-> NewGame, p |-> NewPlayer, h |-> <<>>, e |-> <<>>, l |-> <<>>,
                 s |-> <<>>, sh |-> <<>>, fx |-> {}], Calm)

AsConstructed ==
    /\ game = Constructed.g
    /\ player = Constructed.p
    /\ humans = Constructed.h
    /\ enemies = Constructed.e
    /\ lasers = Constructed.l
    /\ enemy_shots = Constructed.s
    /\ shards = Constructed.sh
    /\ fx = {}
    /\ pc = "events"
    /\ frame_dt = 0

Init == AsConstructed /\ call = NoCall

\* ------------------------------------------------------------------------
\* DefenderGame.update, one action per stage of the pass (src/defender.py:2109-2187)
\* ------------------------------------------------------------------------
\* the frame may be simulated: the bounds of the model are not exhausted
\* a first wave may be queued: spawn_sequence, which setup_world leaves as
\* it is, stays within its bound
CanStartWave ==
    game.spawn_sequence + wave_composition(1).landers <= MaxSpawnSequence

InBounds ==
    /\ game.wave_timer < MaxWaveSeconds * 1000
    /\ game.wave <= MaxWave
    /\ game.next_id <= MaxId
    /\ game.mode = "title" => CanStartWave

\* title screen, respawn timer, demo, Player.update, camera, cooldown
BeginFrame(dt, keys, r) ==
    /\ pc = "events"
    /\ InBounds
    /\ LET \* the title screen counts towards the demonstration
           Title(v) ==
               IF v.g.mode /= "title" THEN v
               ELSE IF ~v.g.demo_active /\ v.g.title_timer + dt >= demo_duration
                    THEN start_demo([v EXCEPT !.g.title_timer = @ + dt], r)
                    ELSE [v EXCEPT !.g.title_timer = @ + dt]
           \* if self.respawn_timer and self.respawn_timer.update(dt)
           Respawn(v) ==
               IF ~v.g.respawn_timer.active THEN v
               ELSE IF v.g.respawn_timer.time_left - dt <= 0
                    THEN finish_player_respawn([v EXCEPT !.g.respawn_timer = NoTimer])
                    ELSE [v EXCEPT !.g.respawn_timer.time_left = @ - dt]
           Demo(v) == IF v.g.mode = "demo" THEN update_demo(v, dt, r) ELSE v
           Camera(v) ==
               check_extra_life(
                   [v EXCEPT !.g.camera_x = wrap_position(v.p.x + v.p.lead_current)])
           Cool(v) == [v EXCEPT !.g.hyperspace_cooldown = IF @ > 0 THEN Max(0, @ - dt) ELSE @]
           Pilot(v) ==
               IF v.g.mode \notin {"demo", "playing"} THEN v
               ELSE Cool(Camera(PlayerUpdate(Demo(v), dt, keys, r)))
           Begin(v) == IF v.g.mode = "title" THEN v ELSE Pilot(Respawn(v))
           Proceeds(v) == v.g.mode /= "title" /\ Respawn(v).g.mode \in {"demo", "playing"}
           w1 == Title([World EXCEPT !.fx = {}])
       IN  /\ SetWorld(Begin(w1))
           /\ pc' = IF Proceeds(w1) THEN "sprites" ELSE "events"
    /\ frame_dt' = dt

RECURSIVE UpdateHumans(_, _, _)
UpdateHumans(w, k, dt) ==
    IF k > HUMAN_COUNT THEN w ELSE UpdateHumans(HumanUpdate(w, k, dt), k + 1, dt)

RECURSIVE UpdateEnemies(_, _, _, _, _)
UpdateEnemies(w, ids, n, dt, r) ==
    \* with no enemy left the rest of the snapshot finds nothing to update
    IF n > Len(ids) \/ Len(w.e) = 0 THEN w
    ELSE UpdateEnemies(EnemyUpdate(w, ids[n], dt, r), ids, n + 1, dt, r)

\* for sprite in self.all_sprites: sprite.update_rect(self.camera_x)
RefreshRects(w) ==
    [w EXCEPT !.p = update_rect(@, "player", w.g.camera_x),
              !.h = [k \in DOMAIN @ |-> update_rect(@[k], "human", w.g.camera_x)],
              !.e = [i \in 1..Len(@) |-> update_rect(@[i], @[i].kind, w.g.camera_x)],
              !.l = [i \in 1..Len(@) |-> laser_update_rect(@[i], w.g.camera_x)],
              !.s = [i \in 1..Len(@) |-> update_rect(@[i], ShotKind(@[i]), w.g.camera_x)]]

\* the sprite update loop over the snapshot of all_sprites, the rectangle
\* refresh and the advance of the wave timer
UpdateSprites(r) ==
    /\ pc = "sprites"
    /\ LET dt == frame_dt
           w1 == UpdateHumans(World, 1, dt)
           w2 == ShardUpdate([w1 EXCEPT !.l = ProjectileUpdate(@, dt),
                                        !.s = ProjectileUpdate(@, dt)], dt)
           w3 == UpdateEnemies(w2, EnemyIds(w2), 1, dt, r)
           w4 == RefreshRects(w3)
       IN  SetWorld([w4 EXCEPT !.g.wave_timer = @ + dt])
    /\ pc' = "spawn"
    /\ UNCHANGED frame_dt

\* a drain loop that leaves the entry scheduled for this very instant
SpawnIsDueStrictly ==
    /\ Len(game.pending_spawns) > 0
    /\ game.pending_spawns[1].time < game.wave_timer

SpawnIsDue ==
    /\ Len(game.pending_spawns) > 0
    /\ game.pending_spawns[1].time <= game.wave_timer

\* one iteration of the drain loop: heappop and func(*args)
SpawnDue(r) ==
    /\ pc = "spawn"
    /\ SpawnIsDue
    /\ game.next_id <= MaxId
    /\ SetWorld(Materialize([World EXCEPT !.g.pending_spawns = heappop(@)],
                            game.pending_spawns[1], r))
    /\ UNCHANGED <<pc, frame_dt>>

\* the drain loop ends; radar blink and the Baiter spawn follow
SpawnDone(r) ==
    /\ pc = "spawn"
    /\ ~SpawnIsDue
    /\ LET w1 == [World EXCEPT !.g.radar_blink_timer = IF @ > 0 THEN Max(0, @ - frame_dt) ELSE @]
           w2 == IF /\ ~w1.g.baiter_spawned
                    /\ w1.g.wave_timer >= BAITER_SPAWN_DELAY
                    /\ ~\E i \in 1..Len(w1.e) : w1.e[i].kind = "baiter"
                 THEN spawn_baiter(w1, r) ELSE w1
       IN  SetWorld(w2)
    /\ pc' = "collide"
    /\ UNCHANGED frame_dt

Collide(r) ==
    /\ pc = "collide"
    /\ SetWorld(handle_collisions(World, r))
    /\ pc' = "humans"
    /\ UNCHANGED frame_dt

Interact ==
    /\ pc = "humans"
    /\ SetWorld(handle_human_interactions(World))
    /\ pc' = "finish"
    /\ UNCHANGED frame_dt

\* a wave taken as over as soon as no enemy is in the field
wave_field_empty(w) == Len(w.e) = 0

\* if not self.enemies and not self.pending_spawns
wave_cleared(w) == Len(w.e) = 0 /\ Len(w.g.pending_spawns) = 0

\* mutant swarm when no colonist is alive, projectile clean-up, wave change
FinishFrame(r) ==
    /\ pc = "finish"
    /\ LET w1 == IF \A k \in DOMAIN humans : humans[k].state = "dead"
                 THEN transform_landers(World, r) ELSE World
           inside(q) == ~(q.y < 0 \/ q.y > SCREEN_HEIGHT * YU)
           w2 == [w1 EXCEPT !.l = SelectSeq(@, inside), !.s = SelectSeq(@, inside)]
       IN  IF wave_cleared(w2)
           THEN SetWorld(begin_next_wave(w2, r))
           ELSE SetWorld(w2)
    /\ pc' = "events"
    /\ UNCHANGED frame_dt

\* ------------------------------------------------------------------------
\* Key events of DefenderGame.run (src/defender.py:2789-2811)
\* ------------------------------------------------------------------------
KeyShift ==
    /\ pc = "events"
    /\ game.mode = "playing"
    /\ SetWorld(begin_reverse_traverse(World, None))
    /\ UNCHANGED <<pc, frame_dt>>

KeySmartBomb(r) ==
    /\ pc = "events"
    /\ game.mode = "playing"
    /\ game.next_id <= MaxId
    /\ SetWorld(activate_smart_bomb(World, r))
    /\ UNCHANGED <<pc, frame_dt>>

KeyHyperspace ==
    /\ pc = "events"
    /\ game.mode = "playing"
    /\ SetWorld(start_hyperspace(World))
    /\ UNCHANGED <<pc, frame_dt>>

KeyNoDeath ==
    /\ pc = "events"
    /\ game' = [game EXCEPT !.no_death = ~@]
    /\ UNCHANGED <<player, humans, enemies, lasers, enemy_shots, shards, fx, pc, frame_dt, call>>

KeyReturn(r) ==
    /\ pc = "events"
    /\ game.mode \in {"title", "game_over"} => CanStartWave
    /\ IF game.mode = "demo" THEN SetWorld(stop_demo(World, r))
       ELSE IF game.mode \in {"title", "game_over"}
       THEN LET w1 == stop_demo(World, r)
            IN  SetWorld(setup_world([w1 EXCEPT !.g.mode = "playing",
                                                !.g.title_timer = 0,
                                                !.g.demo_active = FALSE], r))
       ELSE SetWorld(World)
    /\ UNCHANGED <<pc, frame_dt>>

NoKeys == [left |-> FALSE, right |-> FALSE, up |-> FALSE, down |-> FALSE, space |-> FALSE]

\* ------------------------------------------------------------------------
\* The session from construction: title, play, demonstration, game over.
\* The frames are 100 ms long, the fire key is held, every random draw is
\* the calm one, and each command key is pressed at most at one instant of
\* a wave; the no-death key is pressed outside play.
\* ------------------------------------------------------------------------
SessionDts == {100}

SessionKeys == {[NoKeys EXCEPT !.space = TRUE]}

SessionRnd == {Calm}

\* the instants of a wave at which Shift, H and B are pressed, and the
\* instant of a demonstration at which RETURN stops it
ShiftTimes == {3000}

HyperspaceTimes == {6000}

SmartBombTimes == {9000}

StopTimes == {12000}

\* RETURN and 0 are pressed on a fresh title screen; RETURN also on the
\* game-over screen and at the stop instant of a demonstration
ReturnPressed ==
    \/ game.mode = "title" /\ game.title_timer = 0
    \/ game.mode = "game_over"
    \/ game.mode = "demo" /\ game.wave_timer \in StopTimes

Next ==
    \/ \E dt \in SessionDts, keys \in SessionKeys, r \in SessionRnd : BeginFrame(dt, keys, r)
    \/ \E r \in SessionRnd : UpdateSprites(r)
    \/ \E r \in SessionRnd : SpawnDue(r)
    \/ \E r \in SessionRnd : SpawnDone(r)
    \/ \E r \in SessionRnd : Collide(r)
    \/ Interact
    \/ \E r \in SessionRnd : FinishFrame(r)
    \/ game.wave_timer \in ShiftTimes /\ KeyShift
    \/ game.wave_timer \in SmartBombTimes /\ \E r \in SessionRnd : KeySmartBomb(r)
    \/ game.wave_timer \in HyperspaceTimes /\ KeyHyperspace
    \/ game.mode = "title" /\ game.title_timer = 0 /\ KeyNoDeath
    \/ ReturnPressed /\ \E r \in SessionRnd : KeyReturn(r)

Spec == Init /\ [][Next]_vars

\* ------------------------------------------------------------------------
\* A wave of play with a strafing pilot: the fire key is held throughout;
\* the ship dives to just above the colonists and, 6.6 s into the wave,
\* drops to the altitude of the colonist at x = 3900.
\* ------------------------------------------------------------------------
StrafeKeys ==
    [NoKeys EXCEPT !.space = TRUE,
                   !.down = player.y < (IF game.wave_timer < 6600 THEN 625 ELSE 660) * YU]

StrafeNext ==
    \/ game.mode = "playing" /\ \E r \in SessionRnd : BeginFrame(100, StrafeKeys, r)
    \/ \E r \in SessionRnd : UpdateSprites(r)
    \/ \E r \in SessionRnd : SpawnDue(r)
    \/ \E r \in SessionRnd : SpawnDone(r)
    \/ \E r \in SessionRnd : Collide(r)
    \/ Interact
    \/ \E r \in SessionRnd : FinishFrame(r)
    \/ game.mode = "title" /\ \E r \in SessionRnd : KeyReturn(r)

SpecStrafe == Init /\ [][StrafeNext]_vars

\* ------------------------------------------------------------------------
\* A wave of play with a dive: the fire key is held throughout; the ship
\* keeps its starting altitude, where its shots meet the colonists being
\* carried up, or drops to the altitude of the colonists on the ground,
\* starting 11 s or 14 s into the wave, while landers are on their way down.
\* ------------------------------------------------------------------------
DiveTimes == {11000, 14000}

DiveKeys == [NoKeys EXCEPT !.space = TRUE, !.down = player.y < 660 * YU]

LevelKeys == [NoKeys EXCEPT !.space = TRUE]

DiveNext ==
    \/ /\ game.mode = "playing"
       /\ player.y > NewPlayer.y \/ game.wave_timer \in DiveTimes
       /\ \E r \in SessionRnd : BeginFrame(100, DiveKeys, r)
    \/ /\ game.mode = "playing"
       /\ player.y = NewPlayer.y
       /\ \E r \in SessionRnd : BeginFrame(100, LevelKeys, r)
    \/ \E r \in SessionRnd : UpdateSprites(r)
    \/ \E r \in SessionRnd : SpawnDue(r)
    \/ \E r \in SessionRnd : SpawnDone(r)
    \/ \E r \in SessionRnd : Collide(r)
    \/ Interact
    \/ \E r \in SessionRnd : FinishFrame(r)
    \/ game.mode = "title" /\ \E r \in SessionRnd : KeyReturn(r)

SpecDive == Init /\ [][DiveNext]_vars

\* ------------------------------------------------------------------------
\* The rescue: the dive as above, until a colonist falls; from then on the
\* fire key is let go and the ship makes for the nearest falling colonist,
\* right key and up or down key as needed, and, once it carries one, goes
\* down with it.
\* ------------------------------------------------------------------------
Adrift == {k \in DOMAIN humans : humans[k].state = "falling"}

Nearest ==
    CHOOSE k \in Adrift : \A j \in Adrift :
        Abs(shortest_offset(humans[k].x, player.x)) <= Abs(shortest_offset(humans[j].x, player.x))

RescueKeys ==
    IF player.held_human /= None THEN [NoKeys EXCEPT !.down = TRUE]
    ELSE [NoKeys EXCEPT !.right = shortest_offset(humans[Nearest].x, player.x) > 20,
                        !.down = player.y < humans[Nearest].y - 8 * YU,
                        !.up = player.y > humans[Nearest].y + 8 * YU]

Busy == Adrift /= {} \/ player.held_human /= None

RescueNext ==
    \/ /\ game.mode = "playing" /\ ~Busy
       /\ player.y > NewPlayer.y \/ game.wave_timer \in DiveTimes
       /\ \E r \in SessionRnd : BeginFrame(100, DiveKeys, r)
    \/ /\ game.mode = "playing" /\ ~Busy
       /\ player.y = NewPlayer.y
       /\ \E r \in SessionRnd : BeginFrame(100, LevelKeys, r)
    \/ /\ game.mode = "playing" /\ Busy
       /\ \E r \in SessionRnd : BeginFrame(100, RescueKeys, r)
    \/ \E r \in SessionRnd : UpdateSprites(r)
    \/ \E r \in SessionRnd : SpawnDue(r)
    \/ \E r \in SessionRnd : SpawnDone(r)
    \/ \E r \in SessionRnd : Collide(r)
    \/ Interact
    \/ \E r \in SessionRnd : FinishFrame(r)
    \/ game.mode = "title" /\ \E r \in SessionRnd : KeyReturn(r)

SpecRescue == Init /\ [][RescueNext]_vars

\* ------------------------------------------------------------------------
\* The leap: the rescue as above, until the ship carries a colonist (15.5 s
\* into the wave, 3.2 s of invulnerability left after a respawn); from then
\* on the fire key is held and H may be pressed 15.6 s or 16.0 s into the
\* wave, with a laser out; the teleport draws the destination x = 3800, y = 575 px, ahead of the ship
\* and 16 px above the altitude it fired at.
\* ------------------------------------------------------------------------
LeapTimes == {15600, 16000}

IntoBeam == [Calm EXCEPT !.cand = [i \in 1..4 |-> [x |-> 3800, y |-> 575 * YU]]]

LeapNext ==
    \/ /\ game.mode = "playing" /\ ~Busy
       /\ player.y > NewPlayer.y \/ game.wave_timer \in DiveTimes
       /\ \E r \in SessionRnd : BeginFrame(100, DiveKeys, r)
    \/ /\ game.mode = "playing" /\ ~Busy
       /\ player.y = NewPlayer.y
       /\ \E r \in SessionRnd : BeginFrame(100, LevelKeys, r)
    \/ /\ game.mode = "playing" /\ Busy /\ player.held_human = None
       /\ \E r \in SessionRnd : BeginFrame(100, RescueKeys, r)
    \/ /\ game.mode = "playing" /\ player.held_human /= None
       /\ BeginFrame(100, LevelKeys, IntoBeam)
    \/ \E r \in SessionRnd : UpdateSprites(r)
    \/ \E r \in SessionRnd : SpawnDue(r)
    \/ \E r \in SessionRnd : SpawnDone(r)
    \/ \E r \in SessionRnd : Collide(r)
    \/ Interact
    \/ \E r \in SessionRnd : FinishFrame(r)
    \/ player.held_human /= None /\ game.wave_timer \in LeapTimes /\ KeyHyperspace
    \/ game.mode = "title" /\ \E r \in SessionRnd : KeyReturn(r)

SpecLeap == Init /\ [][LeapNext]_vars

\* ------------------------------------------------------------------------
\* A game with teleports: the fire key is held, H is pressed at most at the
\* listed instants of the wave, 0 and RETURN on the fresh title screen.
\* The candidates drawn for a jump are in mid-field, 400 px down.
\* ------------------------------------------------------------------------
MidField == [Calm EXCEPT !.cand = [i \in 1..4 |-> [x |-> 3000 + 100 * i, y |-> 400 * YU]]]

TeleportRnd == {MidField}

TeleportTimes == {300, 8000, 15000, 22000}

TeleportNext ==
    \/ \E r \in TeleportRnd : BeginFrame(100, [NoKeys EXCEPT !.space = TRUE], r)
    \/ \E r \in SessionRnd : UpdateSprites(r)
    \/ \E r \in SessionRnd : SpawnDue(r)
    \/ \E r \in SessionRnd : SpawnDone(r)
    \/ \E r \in SessionRnd : Collide(r)
    \/ Interact
    \/ \E r \in SessionRnd : FinishFrame(r)
    \/ game.wave_timer \in TeleportTimes /\ KeyHyperspace
    \/ game.mode = "title" /\ game.title_timer = 0 /\ KeyNoDeath
    \/ game.mode = "title" /\ game.title_timer = 0 /\ \E r \in SessionRnd : KeyReturn(r)

\* DefenderGame.run calls update in every iteration of its loop: a pass in
\* progress is carried to its end and, while a game or the demonstration
\* runs, the next pass is begun.  FrameCanStep is the enabling condition of
\* the stages of the pass, and Running a step to another stage.
FrameCanStep ==
    \/ pc = "events" /\ InBounds /\ game.mode \in {"playing", "demo"}
    \/ pc = "sprites"
    \/ pc = "spawn" /\ (SpawnIsDue => game.next_id <= MaxId)
    \/ pc \in {"collide", "humans", "finish"}

Running ==
    /\ FrameCanStep
    /\ pc' \in {"events", "sprites", "spawn", "collide", "humans", "finish"}

SpecTeleport == Init /\ [][TeleportNext]_vars /\ WF_pc(Running)

\* ------------------------------------------------------------------------
\* A wave of play in frames of 20 ms with a ramming pilot: the ship climbs
\* to the altitude of the patrolling landers, thrusts from 7 s to 9 s into
\* the wave and so runs into the lander spawned at x = 4200; the fire key is
\* pressed, or not, in the frames in which a hostile is at the nose.
\* ------------------------------------------------------------------------
\* a hostile is just ahead of the nose and the invulnerability is running out
AtNose ==
    \E i \in 1..Len(enemies) :
        /\ Abs(enemies[i].y - player.y) < 24 * YU
        /\ shortest_offset(enemies[i].x, player.x) * player.direction \in 20..50
        /\ player.invulnerable <= 40

RamKeys(fire_key) ==
    [NoKeys EXCEPT !.space = fire_key,
                   !.up = player.y > 215 * YU,
                   !.right = game.wave_timer >= 7000 /\ game.wave_timer < 9000]

RamNext ==
    \/ /\ game.mode = "playing"
       /\ \E fire_key \in (IF AtNose /\ game.wave_timer < 9000 THEN {TRUE, FALSE} ELSE {FALSE}) :
              \E r \in SessionRnd : BeginFrame(20, RamKeys(fire_key), r)
    \/ \E r \in SessionRnd : UpdateSprites(r)
    \/ \E r \in SessionRnd : SpawnDue(r)
    \/ \E r \in SessionRnd : SpawnDone(r)
    \/ \E r \in SessionRnd : Collide(r)
    \/ Interact
    \/ \E r \in SessionRnd : FinishFrame(r)
    \/ game.mode = "title" /\ \E r \in SessionRnd : KeyReturn(r)

SpecRam == Init /\ [][RamNext]_vars

\* ------------------------------------------------------------------------
\* Falls: a game begins with the colonist at x = 300 released at one of
\* the listed heights above the ground line (Human.start_falling at the
\* place its carrier left it); nothing is pressed, the frames are 100 ms.
\* colonist_safe_landing is also invoked again for colonists on the ground.
\* ------------------------------------------------------------------------
\* the world after RETURN on the title screen
Playing == setup_world([Constructed EXCEPT !.g.mode = "playing"], Calm)

\* drop heights in YU: 12 px, around the lethal height (196 2/3 px), nine
\* tenths of the catastrophic height, around the catastrophic height (442.5 px)
DropHeights ==
    {12 * YU, lethal_height - 1, lethal_height, lethal_height + 1,
     (9 * catastrophic_height) \div 10,
     catastrophic_height - 1, catastrophic_height, catastrophic_height + 1}

Dropped(h) ==
    LET hu == Playing.h[1]
    IN  [Playing EXCEPT !.h[1] = start_falling([hu EXCEPT !.y = terrain_height(hu.x) - h])]

FallInit ==
    \E h \in DropHeights :
        /\ game = Dropped(h).g
        /\ player = Dropped(h).p
        /\ humans = Dropped(h).h
        /\ enemies = Dropped(h).e
        /\ lasers = Dropped(h).l
        /\ enemy_shots = Dropped(h).s
        /\ shards = Dropped(h).sh
        /\ fx = {}
        /\ pc = "events"
        /\ frame_dt = 0
        /\ call = NoCall

SafeLandingAgain ==
    /\ pc = "events"
    /\ \E k \in DOMAIN humans :
           /\ humans[k].state = "ground"
           /\ SetWorld(colonist_safe_landing(World, k))
    /\ UNCHANGED <<pc, frame_dt>>

FallNext ==
    \/ \E r \in SessionRnd : BeginFrame(100, NoKeys, r)
    \/ \E r \in SessionRnd : UpdateSprites(r)
    \/ \E r \in SessionRnd : SpawnDue(r)
    \/ \E r \in SessionRnd : SpawnDone(r)
    \/ \E r \in SessionRnd : Collide(r)
    \/ Interact
    \/ \E r \in SessionRnd : FinishFrame(r)
    \/ SafeLandingAgain

SpecFall == FallInit /\ [][FallNext]_vars

\* ------------------------------------------------------------------------
\* The spawn queue: a game begins in wave 1 or stands at the start of
\* wave 5, whose fifth bomber and first pod are both scheduled for 24.0 s.
\* In wave 1 queue_spawn is called up to MaxSubmitted more times, at 0 s
\* or 1 s into the wave, with delays that meet the times already queued
\* and each other.  Nothing is pressed, the frames are 100 ms.
\* ------------------------------------------------------------------------
MaxSubmitted == 3

\* the world as begin_next_wave leaves it for wave 5
Wave5 ==
    begin_next_wave([Playing EXCEPT !.g.wave = 4, !.g.pending_spawns = <<>>], Calm)

QueueInit ==
    \E w \in {Playing, Wave5} :
        /\ game = w.g
        /\ player = w.p
        /\ humans = w.h
        /\ enemies = w.e
        /\ lasers = w.l
        /\ enemy_shots = w.s
        /\ shards = w.sh
        /\ fx = {}
        /\ pc = "events"
        /\ frame_dt = 0
        /\ call = NoCall

SubmitTimes == {0, 1000}

SubmitDelays == {500, 1500}

\* DefenderGame.queue_spawn(delay, self.spawn_lander, x)
QueueSpawn(delay) ==
    /\ pc = "events"
    /\ game.mode = "playing"
    /\ game.wave = 1
    /\ game.wave_timer \in SubmitTimes
    /\ game.spawn_sequence < wave_composition(1).landers + MaxSubmitted
    /\ SetWorld(queue_spawn(World, delay, "spawn_lander", WORLD_WIDTH \div 2))
    /\ UNCHANGED <<pc, frame_dt>>

\* the frames go on until the entries of interest have been drained
QueueWatched == game.wave_timer < (IF game.wave = 1 THEN 3000 ELSE 25000)

QueueNext ==
    \/ QueueWatched /\ \E r \in SessionRnd : BeginFrame(100, NoKeys, r)
    \/ \E r \in SessionRnd : UpdateSprites(r)
    \/ \E r \in SessionRnd : SpawnDue(r)
    \/ \E r \in SessionRnd : SpawnDone(r)
    \/ \E r \in SessionRnd : Collide(r)
    \/ Interact
    \/ \E r \in SessionRnd : FinishFrame(r)
    \/ \E delay \in SubmitDelays : QueueSpawn(delay)

SpecQueue == QueueInit /\ [][QueueNext]_vars

\* ------------------------------------------------------------------------
\* The hunt: from the title screen, with or without the no-death mode, the
\* ship flies right at the landers' patrol height, 210 px, the fire key held,
\* in frames of 100 ms, and shoots a wave down.
\* ------------------------------------------------------------------------
HuntKeys ==
    [NoKeys EXCEPT !.space = TRUE, !.right = TRUE,
                   !.up = player.y > 215 * YU,
                   !.down = player.y < 205 * YU]

HuntNext ==
    \/ \E r \in SessionRnd : BeginFrame(100, HuntKeys, r)
    \/ \E r \in SessionRnd : UpdateSprites(r)
    \/ \E r \in SessionRnd : SpawnDue(r)
    \/ \E r \in SessionRnd : SpawnDone(r)
    \/ \E r \in SessionRnd : Collide(r)
    \/ Interact
    \/ \E r \in SessionRnd : FinishFrame(r)
    \/ game.mode = "title" /\ game.title_timer = 0 /\ ~game.no_death /\ KeyNoDeath
    \/ game.mode = "title" /\ game.title_timer = 0 /\ \E r \in SessionRnd : KeyReturn(r)

SpecHunt == Init /\ [][HuntNext]_vars

\* ------------------------------------------------------------------------
\* The hunt with a teleport at the end of the wave: as above, and H is
\* pressed at most once, 29.0 s or 29.1 s into wave 1, when one mutant is
\* left and about to be brought down.
\* ------------------------------------------------------------------------
WarpTimes == {29000, 29100}

WarpNext ==
    \/ \E r \in SessionRnd : BeginFrame(100, HuntKeys, r)
    \/ \E r \in SessionRnd : UpdateSprites(r)
    \/ \E r \in SessionRnd : SpawnDue(r)
    \/ \E r \in SessionRnd : SpawnDone(r)
    \/ \E r \in SessionRnd : Collide(r)
    \/ Interact
    \/ \E r \in SessionRnd : FinishFrame(r)
    \/ game.wave = 1 /\ game.wave_timer \in WarpTimes /\ KeyHyperspace
    \/ game.mode = "title" /\ game.title_timer = 0 /\ ~game.no_death /\ KeyNoDeath
    \/ game.mode = "title" /\ game.title_timer = 0 /\ \E r \in SessionRnd : KeyReturn(r)

SpecWarp == Init /\ [][WarpNext]_vars

\* ------------------------------------------------------------------------
\* The hunt with a smart bomb after the Baiter has come: as above, and the
\* smart bomb may be set off 36 s or 38 s into wave 2; a demonstration that
\* has run that long may be stopped with RETURN, and a new game started.
\* ------------------------------------------------------------------------
BaitTimes == {36000, 38000}

BaitNext ==
    \/ \E r \in SessionRnd : BeginFrame(100, HuntKeys, r)
    \/ \E r \in SessionRnd : UpdateSprites(r)
    \/ \E r \in SessionRnd : SpawnDue(r)
    \/ \E r \in SessionRnd : SpawnDone(r)
    \/ \E r \in SessionRnd : Collide(r)
    \/ Interact
    \/ \E r \in SessionRnd : FinishFrame(r)
    \/ game.wave = 2 /\ game.wave_timer \in BaitTimes /\ \E r \in SessionRnd : KeySmartBomb(r)
    \/ game.mode = "demo" /\ game.wave_timer \in BaitTimes /\ \E r \in SessionRnd : KeyReturn(r)
    \/ game.mode = "title" /\ game.title_timer = 0 /\ ~game.no_death /\ KeyNoDeath
    \/ game.mode = "title" /\ game.title_timer = 0 /\ \E r \in SessionRnd : KeyReturn(r)

SpecBait == Init /\ [][BaitNext]_vars

\* ------------------------------------------------------------------------
\* Coasting: the right key is held for the first second of the wave and
\* then let go, so that the ship falls back to cruise speed; the reverse
\* key may be pressed 3 s into the wave, and H 2.5 s or 3.2 s into it, in
\* free flight or in the middle of the turn-around sweep; the game is
\* played with or without the no-death mode.
\* ------------------------------------------------------------------------
CoastKeys == [NoKeys EXCEPT !.right = game.wave_timer < 1000]

CoastTimes == {2500, 3200}

CoastNext ==
    \/ \E r \in SessionRnd : BeginFrame(100, CoastKeys, r)
    \/ \E r \in SessionRnd : UpdateSprites(r)
    \/ \E r \in SessionRnd : SpawnDue(r)
    \/ \E r \in SessionRnd : SpawnDone(r)
    \/ \E r \in SessionRnd : Collide(r)
    \/ Interact
    \/ \E r \in SessionRnd : FinishFrame(r)
    \/ game.wave_timer = 3000 /\ KeyShift
    \/ game.wave_timer \in CoastTimes /\ KeyHyperspace
    \/ game.mode = "title" /\ game.title_timer = 0 /\ ~game.no_death /\ KeyNoDeath
    \/ game.mode = "title" /\ game.title_timer = 0 /\ \E r \in SessionRnd : KeyReturn(r)

SpecCoast == Init /\ [][CoastNext]_vars

\* ------------------------------------------------------------------------
\* Teleports to the western edge of the world: a game in which H is pressed
\* at most at the listed instants of the wave and every jump draws its
\* candidates 300 to 600 px from x = 0, 400 px down; nothing is held.
\* ------------------------------------------------------------------------
WestEdge == [Calm EXCEPT !.cand = [i \in 1..4 |-> [x |-> 200 + 100 * i, y |-> 400 * YU]]]

EdgeTimes == {300, 1000, 4000, 8000}

EdgeNext ==
    \/ BeginFrame(100, NoKeys, WestEdge)
    \/ \E r \in SessionRnd : UpdateSprites(r)
    \/ \E r \in SessionRnd : SpawnDue(r)
    \/ \E r \in SessionRnd : SpawnDone(r)
    \/ \E r \in SessionRnd : Collide(r)
    \/ Interact
    \/ \E r \in SessionRnd : FinishFrame(r)
    \/ game.wave_timer \in EdgeTimes /\ KeyHyperspace
    \/ game.mode = "title" /\ game.title_timer = 0 /\ ~game.no_death /\ KeyNoDeath
    \/ game.mode = "title" /\ game.title_timer = 0 /\ \E r \in SessionRnd : KeyReturn(r)

SpecEdge == Init /\ [][EdgeNext]_vars

\* ------------------------------------------------------------------------
\* Functions called on their own: the module-level position functions, on
\* arguments inside and up to more than two world widths outside
\* [0, WORLD_WIDTH), and wave_composition for the waves 1..MaxWaveNumber.
\* The game stays as constructed.
\* ------------------------------------------------------------------------
MaxWaveNumber == 60

Positions == {k * 500 + d : k \in (0 - 26)..26, d \in {0 - 1, 0, 1}}

\* a few positions to pair with every position
Anchors == {0 - 13000, 0 - 1, 0, 1, 2999, 3000, 3001, 5999, 6000, 13000}

CallInit ==
    /\ AsConstructed
    /\ \/ \E x \in Positions : call = [f |-> "wrap_position", args |-> <<x>>, result |-> <<>>]
       \/ \E a \in Positions, b \in Anchors :
              call = [f |-> "shortest_offset", args |-> <<a, b>>, result |-> <<>>]
       \/ \E n \in 1..MaxWaveNumber :
              call = [f |-> "wave_composition", args |-> <<n>>, result |-> <<>>]

Pending(f) == call.f = f /\ call.result = <<>>

Return(value) ==
    /\ call' = [call EXCEPT !.result = <<value>>]
    /\ UNCHANGED <<game, player, humans, enemies, lasers, enemy_shots, shards, fx, pc, frame_dt>>

CallWrap == Pending("wrap_position") /\ Return(wrap_position(call.args[1]))

CallOffset == Pending("shortest_offset") /\ Return(shortest_offset(call.args[1], call.args[2]))

\* DefenderGame.wave_composition with self.wave = n
CallComposition == Pending("wave_composition") /\ Return(wave_composition(call.args[1]))

CallNext == CallWrap \/ CallOffset \/ CallComposition

SpecCall == CallInit /\ [][CallNext]_vars

\* ------------------------------------------------------------------------
\* The last ship: a game stands at the start of wave 5 with no ship left in
\* reserve and 8,000 or 9,100 points, no extra life awarded yet.  The ship
\* hunts as above and is shot 7.5 s into the wave with 600 points more; its
\* bolts go on scoring while the respawn delay runs.
\* ------------------------------------------------------------------------
VeteranScores == {8000, 9100}

Veteran(score) == [Wave5 EXCEPT !.p.lives = 0, !.p.score = score]

VeteranInit ==
    \E score \in VeteranScores :
        /\ game = Veteran(score).g
        /\ player = Veteran(score).p
        /\ humans = Veteran(score).h
        /\ enemies = Veteran(score).e
        /\ lasers = Veteran(score).l
        /\ enemy_shots = Veteran(score).s
        /\ shards = Veteran(score).sh
        /\ fx = {}
        /\ pc = "events"
        /\ frame_dt = 0
        /\ call = NoCall

VeteranNext ==
    \/ \E r \in SessionRnd : BeginFrame(100, HuntKeys, r)
    \/ \E r \in SessionRnd : UpdateSprites(r)
    \/ \E r \in SessionRnd : SpawnDue(r)
    \/ \E r \in SessionRnd : SpawnDone(r)
    \/ \E r \in SessionRnd : Collide(r)
    \/ Interact
    \/ \E r \in SessionRnd : FinishFrame(r)

SpecVeteran == VeteranInit /\ [][VeteranNext]_vars

\* ------------------------------------------------------------------------
\* The demonstration interrupted: the title screen is left alone until the
\* demonstration starts; RETURN may stop it 17.5 s or 20 s into its first
\* wave, 0.3 s and 2.8 s after its ship was hit, and RETURN on the title
\* screen then starts a game, in which the ship hunts as above.
\* ------------------------------------------------------------------------
InterruptTimes == {17500, 20000}

InterruptNext ==
    \/ \E r \in SessionRnd : BeginFrame(100, HuntKeys, r)
    \/ \E r \in SessionRnd : UpdateSprites(r)
    \/ \E r \in SessionRnd : SpawnDue(r)
    \/ \E r \in SessionRnd : SpawnDone(r)
    \/ \E r \in SessionRnd : Collide(r)
    \/ Interact
    \/ \E r \in SessionRnd : FinishFrame(r)
    \/ game.mode = "demo" /\ game.wave = 1 /\ game.wave_timer \in InterruptTimes
           /\ \E r \in SessionRnd : KeyReturn(r)
    \/ game.mode = "title" /\ ~game.demo_active /\ game.title_timer = 0 /\ game.wave_timer > 0
           /\ \E r \in SessionRnd : KeyReturn(r)

SpecInterrupt == Init /\ [][InterruptNext]_vars

\* ------------------------------------------------------------------------
\* Properties
\* ------------------------------------------------------------------------
Landers == {i \in 1..Len(enemies) : enemies[i].kind = "lander"}

\* lander number i holds colonist k: an active reservation or a capture
Holds(i, k) ==
    \/ humans[k].reserved_by = enemies[i].id
    \/ humans[k].state = "captured" /\ humans[k].carrier = enemies[i].id

\* C1: in every reachable state no colonist is held (reserved or captured)
\* by two distinct landers; while lander h1 holds colonist c,
\* reserve_for_lander(c, h2) returns False for every other lander h2 and
\* leaves c as it is; and at most one lander has c as its target.
C1_OneHolder ==
    \A k \in DOMAIN humans :
        /\ \A i, j \in Landers : Holds(i, k) /\ Holds(j, k) => i = j
        /\ \A i \in Landers : Holds(i, k) =>
               \A j \in Landers \ {i} :
                   /\ ~reserve_ok(humans[k], enemies[j].id)
                   /\ reserve_for_lander(humans[k], enemies[j].id) = humans[k]
        /\ Cardinality({i \in Landers : enemies[i].target = k}) <= 1

\* a colonist on the ground is reserved by one lander while another lander,
\* still without a target, has that colonist as the nearest one on the ground
C1_Witness ==
    \E k \in DOMAIN humans : \E i, j \in Landers :
        /\ i /= j
        /\ humans[k].state = "ground"
        /\ humans[k].reserved_by = enemies[i].id
        /\ enemies[i].target = k
        /\ enemies[j].target = None
        /\ \A m \in DOMAIN humans :
               humans[m].state = "ground" =>
                   Abs(shortest_offset(humans[k].x, enemies[j].x))
                       <= Abs(shortest_offset(humans[m].x, enemies[j].x))

\* C2: a lander's target and the colonist's reservation are updated
\* together: at every frame boundary, for every lander L and colonist c,
\* c.reserved_by = L implies L.target = c, and L.target = c implies that c
\* is on the ground reserved by L or captured with carrier L.
C2_Together ==
    pc = "events" =>
        \A i \in Landers : \A k \in DOMAIN humans :
            /\ humans[k].reserved_by = enemies[i].id => enemies[i].target = k
            /\ enemies[i].target = k =>
                   \/ humans[k].state = "ground" /\ humans[k].reserved_by = enemies[i].id
                   \/ humans[k].state = "captured" /\ humans[k].carrier = enemies[i].id

\* ------------------------------------------------------------------------
\* Teleport
\* ------------------------------------------------------------------------
\* the pass in which the vanish phase ends and the jump is performed
JumpStep == player.hyperspace_state = "vanish" /\ player'.hyperspace_state = "jump"

\* no extra life is due in that pass
NoExtraLife == player.score < (player.lives_awarded + 1) * 10000

\* the invulnerability Player.hit finds at the jump is not positive: the
\* respawn of that pass or the countdown of Player.update come first
HitLands ==
    LET respawned == game.respawn_timer.active /\ game.respawn_timer.time_left <= frame_dt'
        before == IF respawned THEN PLAYER_RESPAWN_INVULN + PLAYER_DEATH_INVULN
                  ELSE player.invulnerable
    IN  ~game.no_death /\ before <= frame_dt'

\* C3, as the claim states it: whatever the invulnerability and the no-death
\* mode, the jump of a teleport (no candidate of which is safe) takes
\* exactly one life, and every teleport begun comes back to idle.
C3_Original ==
    /\ [][JumpStep /\ NoExtraLife => player'.lives = player.lives - 1]_vars
    /\ (player.hyperspace_state = "vanish") ~> (player.hyperspace_state = "idle")

\* C3, amended: the jump of a teleport with no safe candidate calls
\* Player.hit once, which takes exactly one life when the no-death mode is
\* off and the invulnerability has run out, and none otherwise; and every
\* teleport begun comes back to idle unless the game is over first.
C3_HitOnce ==
    /\ [][JumpStep /\ NoExtraLife =>
              /\ game'.radar_warning
              /\ player'.lives = player.lives - (IF HitLands THEN 1 ELSE 0)]_vars
    /\ (player.hyperspace_state = "vanish")
           ~> (player.hyperspace_state = "idle" \/ game.mode = "game_over")

\* a teleport that cost a life has come back to idle
C3_Witness ==
    /\ player.hyperspace_state = "idle"
    /\ game.hyperspace_cooldown = HYPERSPACE_COOLDOWN - 100
    /\ game.radar_warning
    /\ ~game.no_death
    /\ player.lives = 1
    /\ game.mode = "playing"

\* the candidate is vertically within the playable band, not within 80 of
\* any hostile and not within 70 of any mine
ClearCandidate(c) ==
    /\ c.y >= PLAYFIELD_TOP * YU
    /\ c.y <= (SCREEN_HEIGHT - 80) * YU
    /\ \A i \in 1..Len(enemies) :
          ~(Abs(shortest_offset(enemies[i].x, c.x)) < 80 /\ Abs(enemies[i].y - c.y) < 80 * YU)
    /\ \A i \in 1..Len(enemy_shots) :
          enemy_shots[i].mine =>
              ~(Abs(shortest_offset(enemy_shots[i].x, c.x)) < 70
                /\ Abs(enemy_shots[i].y - c.y) < 70 * YU)

\* the ship has arrived at a candidate of the draw r
ArrivedBy(r) == \E i \in 1..4 : player'.x = r.cand[i].x /\ player'.y = r.cand[i].y

\* C4: a jump one of whose three candidates is within the playable band and
\* clear of hostiles and mines is a safe arrival, without radar warning and
\* without a hit; in particular every jump into a world without hostiles
\* and mines.
C4_Accepted ==
    [][JumpStep =>
          /\ \A r \in TeleportRnd :
                 ArrivedBy(r) /\ (\E i \in 1..3 : ClearCandidate(r.cand[i]))
                     => ~game'.radar_warning
          /\ Len(enemies) = 0 /\ Len(enemy_shots) = 0
                 => ~game'.radar_warning /\ player'.lives >= player.lives]_vars

\* ------------------------------------------------------------------------
\* Contacts of the ship
\* ------------------------------------------------------------------------
\* the hostiles whose rectangle overlaps the ship's
Touching == {i \in 1..Len(enemies) : collide_rect(player, "player", enemies[i], enemies[i].kind)}

\* a laser overlaps the hostile
UnderFire(i) ==
    \E j \in 1..Len(lasers) : collide_rect(enemies[i], enemies[i].kind, lasers[j], "laser")

Vulnerable == player.invulnerable <= 0 /\ ~game.no_death

\* C5, as the claim states it: with the invulnerability run out, no-death
\* off and at least one hostile overlapping the ship when the collisions of
\* the frame are handled, exactly one life is taken.
C5_Original ==
    [][pc = "collide" /\ Vulnerable /\ Touching /= {}
           => player'.lives = player.lives - 1]_vars

\* C5, amended: the collisions of a frame take at most one life, however
\* many hostiles, shots and mines overlap the ship, and exactly one when the
\* invulnerability has run out, no-death is off and a hostile that no laser
\* overlaps (the lasers are resolved before the contacts) overlaps the ship.
C5_OneHit ==
    [][pc = "collide" =>
          /\ player'.lives \in {player.lives - 1, player.lives}
          /\ Vulnerable /\ (\E i \in Touching : ~UnderFire(i))
                 => player'.lives = player.lives - 1]_vars

\* the collisions took a life with several hostiles and a shot on the ship
C5_Witness ==
    /\ pc = "humans"
    /\ ~game.no_death
    /\ game.respawn_timer.active
    /\ game.respawn_timer.time_left = PLAYER_DEATH_RESPAWN_DELAY
    /\ Cardinality(Touching) > 1
    /\ ShotsOnPlayer(World) /= {}

\* ------------------------------------------------------------------------
\* Falls of the colonists
\* ------------------------------------------------------------------------
\* the colonists whose one-shot reward flag is set by the step
NewlyRewarded ==
    {k \in DOMAIN humans : ~humans[k].safe_landing_rewarded /\ humans'[k].safe_landing_rewarded}

\* colonist k reaches the ground in the step
Lands(k) ==
    /\ pc = "sprites"
    /\ humans[k].state = "falling"
    /\ humans'[k].state /= "falling"

\* the height fallen as Human.update measures it: from the ground line up
\* to where the fall began
DropHeight(k) == Max(0, terrain_height(humans[k].x) - humans[k].drop_start_y)

PlayableSpan == (SCREEN_HEIGHT - PLAYFIELD_TOP) * YU

\* the effect of the given kind where colonist k has come to rest
EffectAt(kind, k) == [kind |-> kind, x |-> humans'[k].x, y |-> humans'[k].y] \in fx'

\* C6: the safe-landing bonus is granted at most once per fall: a step adds
\* 250 to the score only for a colonist whose reward flag it sets, a set
\* flag is cleared only by the start of a new fall, and invoking
\* colonist_safe_landing again adds nothing.
C6_OncePerFall ==
    [][/\ player'.score - player.score <= 250 * Cardinality(NewlyRewarded)
       /\ \A k \in NewlyRewarded : humans[k].state = "falling"
       /\ \A k \in DOMAIN humans :
              humans[k].safe_landing_rewarded /\ ~humans'[k].safe_landing_rewarded
                  => humans[k].state /= "falling" /\ humans'[k].state = "falling"]_vars

\* a colonist that fell has landed safely and the bonus has been paid
C6_Witness ==
    /\ humans[1].state = "ground"
    /\ humans[1].safe_landing_rewarded
    /\ humans[1].drop_start_y < humans[1].y
    /\ player.score = 250
    /\ pc = "events"
    /\ game.wave_timer > 5000

\* C7: a falling colonist that reaches the ground survives and earns the
\* 250 bonus if the height fallen is at most a third of the playable span,
\* dies with the crater effect if it is more than that and less than three
\* quarters of the span, and dies with the explosion at three quarters or more.
C7_Outcome ==
    [][\A k \in DOMAIN humans :
          Lands(k) =>
              IF 4 * DropHeight(k) >= 3 * PlayableSpan
              THEN humans'[k].state = "dead" /\ EffectAt("explosion", k)
                   /\ player'.score = player.score
              ELSE IF 3 * DropHeight(k) > PlayableSpan
              THEN humans'[k].state = "dead" /\ EffectAt("crater", k)
                   /\ ~EffectAt("explosion", k) /\ player'.score = player.score
              ELSE humans'[k].state = "ground" /\ player'.score = player.score + 250]_vars

\* the colonist released just above the lethal height has died with a crater
C7_Witness ==
    /\ humans[1].state = "dead"
    /\ terrain_height(humans[1].x) - humans[1].drop_start_y = lethal_height + 1
    /\ [kind |-> "crater", x |-> humans[1].x, y |-> humans[1].y] \in fx

\* C8, as the claim states it: a drop from exactly the lethal height ends on
\* the ground alive with 250 scored; a drop from nine tenths of the
\* catastrophic height ends dead with the explosion effect.
C8_Original ==
    [][\A k \in DOMAIN humans :
          Lands(k) =>
              /\ 3 * DropHeight(k) = PlayableSpan
                     => humans'[k].state = "ground" /\ player'.score = player.score + 250
              /\ 40 * DropHeight(k) = 27 * PlayableSpan
                     => humans'[k].state = "dead" /\ EffectAt("explosion", k)]_vars

\* C8, amended: a drop from exactly the lethal height ends on the ground
\* alive with 250 scored, once; a drop from nine tenths of the catastrophic
\* height ends dead with the crater effect and without the explosion.
C8_Scenario ==
    [][/\ \A k \in DOMAIN humans :
              Lands(k) =>
                  /\ 3 * DropHeight(k) = PlayableSpan
                         => humans'[k].state = "ground" /\ player'.score = player.score + 250
                  /\ 40 * DropHeight(k) = 27 * PlayableSpan
                         => /\ humans'[k].state = "dead"
                            /\ EffectAt("crater", k)
                            /\ ~EffectAt("explosion", k)
       /\ \A k \in DOMAIN humans :
              /\ humans[k].state = "ground"
              /\ 3 * DropHeight(k) = PlayableSpan
              /\ humans'[k].state = "ground"
              => player'.score = player.score]_vars

\* the colonist released at nine tenths of the catastrophic height is dead
C8_Witness ==
    /\ humans[1].state = "dead"
    /\ 40 * (terrain_height(humans[1].x) - humans[1].drop_start_y) = 27 * PlayableSpan
    /\ pc = "spawn"

\* ------------------------------------------------------------------------
\* The spawn queue
\* ------------------------------------------------------------------------
\* entry a is scheduled before entry b, or for the same time and submitted first
GoesBefore(a, b) == a.time < b.time \/ (a.time = b.time /\ a.seq < b.seq)

\* the step materializes one entry of the queue
Drains ==
    /\ pc = "spawn"
    /\ Len(game'.pending_spawns) = Len(game.pending_spawns) - 1

\* C9: the queue drains in scheduled-time order, ties in submission order:
\* the entry materialized is due, it goes before every other pending entry
\* by time and then by submission number, the others all stay queued, and
\* the submission numbers tell the entries apart.
C9_DrainOrder ==
    /\ [][Drains =>
              LET q == game.pending_spawns
              IN  /\ q[1].time <= game.wave_timer
                  /\ \A j \in 2..Len(q) : GoesBefore(q[1], q[j])
                  /\ \A j \in 2..Len(q) :
                         \E i \in 1..Len(game'.pending_spawns) : game'.pending_spawns[i] = q[j]
                  /\ enemies'[Len(enemies')].x = q[1].x]_vars
    /\ [](\A i, j \in 1..Len(game.pending_spawns) :
              /\ game.pending_spawns[i].seq <= game.spawn_sequence
              /\ i /= j => game.pending_spawns[i].seq /= game.pending_spawns[j].seq)

\* wave 5, 24.0 s: of the fifth bomber and the first pod, due together,
\* the bomber submitted first has been materialized and the pod is next
C9_Witness ==
    /\ pc = "spawn"
    /\ SpawnIsDue
    /\ Len(enemies) > 0
    /\ enemies[Len(enemies)].rl = 0
    /\ enemies[Len(enemies)].rt = 0
    /\ game.wave = 5
    /\ game.pending_spawns[1].func = "spawn_pod"
    /\ game.pending_spawns[1].time = game.wave_timer
    /\ enemies[Len(enemies)].kind = "bomber"

\* ------------------------------------------------------------------------
\* The end of a wave
\* ------------------------------------------------------------------------
InPlay(g) == g.mode \in {"playing", "demo"}

\* the step that closes a frame whose enemies and spawn queue are both empty
ClosesEmptyFrame ==
    /\ pc = "finish"
    /\ pc' = "events"
    /\ Len(enemies) = 0
    /\ Len(game.pending_spawns) = 0

\* C10: a wave ends exactly when the enemies and the spawn queue are both
\* empty: in play or demonstration the wave number moves only by +1, it
\* does so at the close of every frame that ends with both empty, and it
\* stays as it is in every other step, where either is non-empty.
C10_WaveEnds ==
    [][InPlay(game) /\ InPlay(game') =>
          /\ game'.wave \in {game.wave, game.wave + 1}
          /\ game'.wave = game.wave + 1 <=> ClosesEmptyFrame]_vars

\* the second wave has just been set up by the close of a frame of play
C10_Witness ==
    /\ pc = "events"
    /\ game.mode = "playing"
    /\ game.wave = 2
    /\ game.wave_timer = 0
    /\ Len(enemies) = 0
    /\ Len(game.pending_spawns) = wave_composition(2).landers + wave_composition(2).bombers

\* ------------------------------------------------------------------------
\* World X
\* ------------------------------------------------------------------------
Normalized(x) == 0 <= x /\ x < WORLD_WIDTH

\* C11: stored world X is normalized: after every frame update the player,
\* every hostile, colonist, player bolt, hostile projectile or mine, and
\* every transient effect, teleport fragments included, has its world X in
\* [0, WORLD_WIDTH).
C11_Normalized ==
    pc = "events" =>
        /\ Normalized(player.x)
        /\ \A i \in 1..Len(enemies) : Normalized(enemies[i].x)
        /\ \A k \in DOMAIN humans : Normalized(humans[k].x)
        /\ \A i \in 1..Len(lasers) : Normalized(lasers[i].x)
        /\ \A i \in 1..Len(enemy_shots) : Normalized(enemy_shots[i].x)
        /\ \A e \in fx : Normalized(e.x)
        /\ \A i \in 1..Len(shards) : Normalized(shards[i].x)

\* C12: for every position x, also more than one world width outside the
\* range, wrap_position(x) lies in [0, WORLD_WIDTH) and wrapping it again
\* gives the same value.
C12_Idempotent ==
    (call.f = "wrap_position" /\ call.result /= <<>>) =>
        /\ Normalized(call.result[1])
        /\ wrap_position(call.result[1]) = call.result[1]

\* C13: for all a and b, shortest_offset(a, b) is at most WORLD_WIDTH / 2 in
\* magnitude and wrap_position(b + shortest_offset(a, b)) = wrap_position(a).
C13_Offset ==
    (call.f = "shortest_offset" /\ call.result /= <<>>) =>
        /\ 2 * Abs(call.result[1]) <= WORLD_WIDTH
        /\ wrap_position(call.args[2] + call.result[1]) = wrap_position(call.args[1])

\* ------------------------------------------------------------------------
\* Wave composition
\* ------------------------------------------------------------------------
Categories == {"landers", "bombers", "pods", "mutants", "swarmer", "baiters"}

Composed == call.f = "wave_composition" /\ call.result /= <<>>

\* C14: the counts do not decrease: for every wave n >= 1 and every
\* category, landers, bombers, pods, mutants, swarmers and baiters, the
\* count for wave n + 1 is at least the count for wave n.
C14_NonDecreasing ==
    Composed =>
        /\ DOMAIN call.result[1] = Categories
        /\ \A c \in Categories : call.result[1][c] <= wave_composition(call.args[1] + 1)[c]

\* wave 5 has been composed: its successor is the first computed wave
C14_Witness ==
    /\ Composed
    /\ call.args[1] = 5
    /\ call.result[1].landers = 18
    /\ call.result[1].pods = 3

\* C15: every category keeps to a ceiling that does not depend on the wave
\* number: landers never exceed 24, and bombers and pods stay at or below
\* a fixed maximum too, here the same 24.
C15_Ceilings ==
    Composed =>
        /\ call.result[1].landers <= 24
        /\ call.result[1].bombers <= 24
        /\ call.result[1].pods <= 24

\* ------------------------------------------------------------------------
\* The teleport state machine
\* ------------------------------------------------------------------------
\* the world an invocation of the teleport would leave, between two frames
Invoked == start_hyperspace(World)

TeleportBusy == player.hyperspace_state /= "idle" \/ game.hyperspace_cooldown > 0

\* C16: a teleport invoked while the phase is not idle or the cooldown is
\* above zero is rejected: phase, timer, saved entry values and position
\* stay as they are and no effect is spawned; invoked in idle with the
\* cooldown at 0 it enters vanish.
C16_Rejected ==
    pc = "events" =>
        IF TeleportBusy
        THEN /\ Invoked.p = player
             /\ Invoked.sh = shards
             /\ Invoked.fx = fx
             /\ Invoked.g = game
        ELSE /\ Invoked.p.hyperspace_state = "vanish"
             /\ Invoked.p.hyperspace_timer = 0
             /\ Invoked.p.x = player.x /\ Invoked.p.y = player.y

\* H is pressed one second into the wave, while the fragments of the
\* teleport begun at 0.3 s are still flying in
C16_Witness ==
    /\ pc = "events"
    /\ game.mode = "playing"
    /\ game.wave_timer = 1000
    /\ player.hyperspace_state = "reappear"
    /\ player.hyperspace_inbound_shards > 0
    /\ Invoked = World

\* ------------------------------------------------------------------------
\* The lander state machine
\* ------------------------------------------------------------------------
LanderIds(es) == {es[i].id : i \in {j \in 1..Len(es) : es[j].kind = "lander"}}

Sprite(es, id) == es[CHOOSE i \in 1..Len(es) : es[i].id = id]

\* the landers of this step that are gone after it
Gone == LanderIds(enemies) \ LanderIds(enemies')

\* the mutants this step has added
NewMutants == {i \in 1..Len(enemies') : enemies'[i].kind = "mutant" /\ enemies'[i].id >= game.next_id}

\* patrolling -> descending, once aligned with the reserved target
Aligned(a, b) ==
    /\ a.state = "patrolling" /\ b.state = "descending"
    /\ b.target /= None
    /\ humans'[b.target].reserved_by = b.id
    /\ Abs(shortest_offset(humans'[b.target].x, b.x)) < 6

\* descending -> ascending at the hover offset, the target captured
Seized(a, b) ==
    /\ a.state = "descending" /\ b.state = "ascending"
    /\ b.target /= None
    /\ b.y = humans[b.target].y - (SpriteH("lander") \div 2 + SpriteH("human") \div 2 - 6) * YU
    /\ humans'[b.target].state = "captured"
    /\ humans'[b.target].carrier = b.id

\* descending or ascending -> patrolling: the target has died
Bereft(a, b) ==
    /\ a.state \in {"descending", "ascending"} /\ b.state = "patrolling"
    /\ a.target /= None /\ b.target = None
    /\ humans'[a.target].state = "dead"

\* the lander a has reached minimum altitude in this sprite update
AtMinimum(a) ==
    /\ pc = "sprites"
    /\ a.state = "ascending"
    /\ a.y - Scale(LANDER_ASCENT_SPEED * YU, frame_dt) <= Max(LANDER_MIN_ALTITUDE, PLAYFIELD_TOP) * YU

\* the mutant swarm: no colonist is alive at the end of the frame
Swarm == pc = "finish" /\ \A k \in DOMAIN humans : humans[k].state = "dead"

\* where a stands when it mutates
MutatesAt(a, r) ==
    IF pc = "sprites"
    THEN [x |-> wrap_position(a.x + Scale((40 * r.jit) \div 1000, frame_dt)),
          y |-> a.y - Scale(LANDER_ASCENT_SPEED * YU, frame_dt)]
    ELSE [x |-> a.x, y |-> a.y]

\* a is replaced by a mutant at its position and its colonist is dead
Replaced(a) ==
    /\ \E i \in NewMutants, r \in SessionRnd :
           [x |-> enemies'[i].x, y |-> enemies'[i].y] = MutatesAt(a, r)
    /\ a.target /= None => humans'[a.target].state = "dead"

\* every mutant added stands for one lander gone, and conversely
OneEach == Cardinality(NewMutants) = Cardinality(Gone)

SameSession == game'.mode = game.mode /\ game'.next_id >= game.next_id

\* the claim as stated: the chain is the only way a lander changes state
\* and minimum altitude the only occasion of a mutation
C17_Original ==
    [][SameSession =>
        /\ \A id \in LanderIds(enemies) \cap LanderIds(enemies') :
               \/ Sprite(enemies', id).state = Sprite(enemies, id).state
               \/ Aligned(Sprite(enemies, id), Sprite(enemies', id))
               \/ Seized(Sprite(enemies, id), Sprite(enemies', id))
        /\ NewMutants /= {} =>
               /\ OneEach
               /\ \A id \in Gone : AtMinimum(Sprite(enemies, id)) /\ Replaced(Sprite(enemies, id))
      ]_vars

\* C17: a lander's state changes only along patrolling -> descending
\* (aligned with its reserved target) -> ascending (at the hover offset,
\* the target captured with this lander as carrier), or back to
\* patrolling when its target has died; it mutates on reaching minimum
\* altitude, or in any state when no colonist is left alive; a mutation
\* removes the lander, adds exactly one mutant at its position and
\* leaves the carried colonist dead.
C17_Chain ==
    [][SameSession =>
        /\ \A id \in LanderIds(enemies) \cap LanderIds(enemies') :
               \/ Sprite(enemies', id).state = Sprite(enemies, id).state
               \/ Aligned(Sprite(enemies, id), Sprite(enemies', id))
               \/ Seized(Sprite(enemies, id), Sprite(enemies', id))
               \/ Bereft(Sprite(enemies, id), Sprite(enemies', id))
        /\ NewMutants /= {} =>
               /\ OneEach
               /\ \A id \in Gone :
                      /\ AtMinimum(Sprite(enemies, id)) \/ Swarm
                      /\ Replaced(Sprite(enemies, id))
        /\ \A id \in LanderIds(enemies) :
               AtMinimum(Sprite(enemies, id)) /\ pc' = "spawn" => id \in Gone /\ NewMutants /= {}
      ]_vars

\* a lander has just mutated at minimum altitude: the mutant is the newest
\* hostile and the colonist it carried is dead
C17_Witness ==
    /\ pc = "spawn"
    /\ Len(enemies) > 0
    /\ enemies[Len(enemies)].kind = "mutant"
    /\ enemies[Len(enemies)].id = game.next_id - 1
    /\ enemies[Len(enemies)].y <= Max(LANDER_MIN_ALTITUDE, PLAYFIELD_TOP) * YU
    /\ \E k \in DOMAIN humans : humans[k].state = "dead"

\* the colonist the lander en is after has died
Orphaned(en) == en.kind = "lander" /\ en.target /= None /\ humans[en.target].state = "dead"

\* C18: a lander whose captive or target has died does not freeze: a dead
\* colonist keeps no carrier and no reservation; a lander carrying its
\* colonist up is returned to patrolling the moment the colonist dies, and
\* a lander still on its way down once its next update has run, so that
\* after the sprite update no lander is left with a dead target, and a
\* lander without a target is patrolling.
C18_Resumes ==
    /\ \A k \in DOMAIN humans :
           humans[k].state = "dead" => humans[k].carrier = None /\ humans[k].reserved_by = None
    /\ \A i \in 1..Len(enemies) :
           /\ Orphaned(enemies[i]) =>
                  enemies[i].state /= "ascending" /\ pc \in {"humans", "finish", "events", "sprites"}
           /\ enemies[i].kind = "lander" /\ enemies[i].target = None =>
                  enemies[i].state = "patrolling"

\* the colonist at x = 5100 was shot while its lander was coming down: the
\* lander has been updated and patrols, without a target, at the altitude
\* where the news reached it
C18_Witness ==
    /\ pc = "spawn"
    /\ humans[9].state = "dead"
    /\ \E i \in 1..Len(enemies) :
           /\ enemies[i].kind = "lander" /\ enemies[i].id = 9
           /\ enemies[i].state = "patrolling"
           /\ enemies[i].target = None
           /\ enemies[i].home_altitude > (PLAYFIELD_TOP + 40) * YU

\* ------------------------------------------------------------------------
\* The session modes
\* ------------------------------------------------------------------------
\* the respawn delay runs out in the frame that begins with this step
RespawnEnds ==
    /\ pc = "events"
    /\ game.respawn_timer.active
    /\ game.respawn_timer.time_left - frame_dt' <= 0

\* a game begins: wave 1, no score, the initial ships, every colonist on
\* the ground
FreshGame ==
    /\ game'.mode = "playing"
    /\ game'.wave = 1
    /\ player'.score = 0
    /\ player'.lives = NewPlayer.lives
    /\ \A k \in DOMAIN humans' : humans'[k].state = "ground"

GameOverEntered ==
    game'.mode = "game_over" /\ game.mode /= "game_over" =>
        /\ game.mode \in {"playing", "demo"}
        /\ RespawnEnds
        /\ player.lives < 0

GameOverLeft == game.mode = "game_over" /\ game'.mode /= "game_over" => FreshGame

\* the claim as stated: the mode never goes back to the title
C19_Original ==
    [][/\ <<game.mode, game'.mode>> \in
              {<<"title", "title">>, <<"title", "playing">>, <<"title", "demo">>,
               <<"playing", "playing">>, <<"demo", "demo">>,
               <<"playing", "game_over">>, <<"demo", "game_over">>,
               <<"game_over", "game_over">>, <<"game_over", "playing">>}
       /\ GameOverEntered
       /\ GameOverLeft
      ]_vars

\* C19: the session mode moves only along title -> playing or demo ->
\* game_over -> (restart) -> playing, or from demo back to title when
\* RETURN ends the demonstration: game_over is entered only from playing
\* or demo and only when a respawn delay ends with lives below zero,
\* game_over is left only by a restart, and a restart begins play with
\* wave 1, score 0, the initial lives and all colonists on the ground.
C19_Modes ==
    [][/\ <<game.mode, game'.mode>> \in
              {<<"title", "title">>, <<"title", "playing">>, <<"title", "demo">>,
               <<"playing", "playing">>, <<"demo", "demo">>, <<"demo", "title">>,
               <<"playing", "game_over">>, <<"demo", "game_over">>,
               <<"game_over", "game_over">>, <<"game_over", "playing">>}
       /\ GameOverEntered
       /\ GameOverLeft
       /\ game.mode = "demo" /\ game'.mode = "title" => pc = "events" /\ pc' = "events"
      ]_vars

\* RETURN has restarted the game after the last ship was lost 22.2 s into
\* the first game: the second formation is queued and the camera still
\* rests where that ship went down
C19_Witness ==
    /\ pc = "events"
    /\ game.mode = "playing"
    /\ game.wave = 1 /\ game.wave_timer = 0
    /\ game.spawn_sequence = 20
    /\ game.camera_x = 4207
    /\ player.score = 0 /\ player.lives = NewPlayer.lives
    /\ \A k \in DOMAIN humans : humans[k].state = "ground"

\* ------------------------------------------------------------------------
\* The teleport cycle
\* ------------------------------------------------------------------------
\* the steps of the cycle, each with the least time its phase has lasted
\* when it is left
CycleStep ==
    LET from == player.hyperspace_state
        to == player'.hyperspace_state
        elapsed == player.hyperspace_timer + frame_dt'
    IN  \/ to = from
        \/ from = "idle" /\ to = "vanish"
        \/ from = "vanish" /\ to = "jump" /\ elapsed >= HYPERSPACE_VANISH_TIME
        \/ from = "jump" /\ to = "reappear" /\ elapsed >= HYPERSPACE_REAPPEAR_DELAY
        \/ /\ from = "reappear" /\ to = "stabilize"
           /\ elapsed >= HYPERSPACE_REAPPEAR_TIME
           /\ player.hyperspace_inbound_shards = 0
        \/ from = "stabilize" /\ to = "idle" /\ elapsed >= HYPERSPACE_STABILIZE_TIME

\* C20: within a game the teleport phase changes only along the cycle idle
\* -> vanish -> jump -> reappear -> stabilize -> idle: no phase is skipped
\* or left early by any event, a wave change, a hit or a respawn included,
\* each phase lasts at least its fixed duration, and reappear is not left
\* before all inbound fragments have finished.
C20_Cycle == [][game.mode = "playing" /\ game'.mode = "playing" => CycleStep]_vars

\* ------------------------------------------------------------------------
\* What a teleport gives back
\* ------------------------------------------------------------------------
\* H is accepted in this step
Accepted == player.hyperspace_state = "idle" /\ player'.hyperspace_state = "vanish"

\* the teleport completes in this step
Completed == player.hyperspace_state = "stabilize" /\ player'.hyperspace_state = "idle"

\* C21: on teleport completion the pre-teleport state is restored exactly:
\* the entry values are those of the moment the teleport was accepted,
\* they are kept while the teleport lasts, and when the phase returns to
\* idle the horizontal velocity, the pending speed, the throttle and the
\* camera lead equal them, for safe and unsafe arrivals alike.
C21_Restored ==
    [][/\ Accepted =>
              /\ player'.hyperspace_entry_velocity = player.velocity_x
              /\ player'.hyperspace_entry_pending = player.pending_speed
              /\ player'.hyperspace_entry_throttle = player.throttle_active
              /\ player'.hyperspace_entry_lead = player.lead_current
       /\ player.hyperspace_state /= "idle" /\ game'.mode = game.mode =>
              /\ player'.hyperspace_entry_velocity = player.hyperspace_entry_velocity
              /\ player'.hyperspace_entry_pending = player.hyperspace_entry_pending
              /\ player'.hyperspace_entry_throttle = player.hyperspace_entry_throttle
              /\ player'.hyperspace_entry_lead = player.hyperspace_entry_lead
       /\ Completed =>
              /\ player'.velocity_x = player.hyperspace_entry_velocity
              /\ player'.pending_speed = player.hyperspace_entry_pending
              /\ player'.throttle_active = player.hyperspace_entry_throttle
              /\ player'.lead_current = player.hyperspace_entry_lead
      ]_vars

\* the relocation of the teleport happens in this step
Jumped == player.hyperspace_state = "vanish" /\ player'.hyperspace_state = "jump"

\* none of the three candidates tried passes the safety test
AllFail(r) == \A i \in 1..3 : ~is_hyperspace_safe(World, r.cand[i].x, r.cand[i].y)

\* C22: if all 3 teleport candidates fail the safety test, the destination
\* used is the last-tried candidate, one of the positions that was tested
\* and found unsafe, and the player immediately takes a hit: a ship that is
\* vulnerable loses a life in that frame.
C22_LastTried ==
    [][Jumped =>
           \A r \in TeleportRnd :
               AllFail(r) =>
                   /\ player'.x = r.cand[3].x
                   /\ player'.y = r.cand[3].y
                   /\ ~game.no_death /\ player.invulnerable = 0 =>
                          player'.lives = player.lives - 1
      ]_vars

\* ------------------------------------------------------------------------
\* The turn-around sweep
\* ------------------------------------------------------------------------
\* the ship is put back in place in this step: a respawn, a new wave or a
\* new game
ShipReset == RespawnEnds \/ game'.wave /= game.wave \/ game'.mode /= game.mode

\* Player.update runs in this step
Piloted == pc = "events" /\ pc' = "sprites"

\* C23: while a turn-around sweep is in progress the player's world X is
\* not advanced by propulsion, the facing direction is unchanged, and
\* neither directional input nor the reverse key restarts or retargets the
\* sweep; the sweep's clock advances with every update of the ship and
\* facing flips to the pending direction exactly when the sweep's fixed
\* duration, 1.35 s, has elapsed.
C23_Sweep ==
    [][player.reverse_in_progress /\ ~ShipReset =>
           /\ ~Jumped => player'.x = player.x
           /\ player'.pending_direction = player.pending_direction
           /\ player'.lead_target = player.lead_target
           /\ IF player'.reverse_in_progress
              THEN /\ player'.direction = player.direction
                   /\ player'.lead_start = player.lead_start
                   /\ player'.lead_timer = IF Piloted THEN player.lead_timer + frame_dt'
                                           ELSE player.lead_timer
                   /\ player'.lead_timer < 1350
              ELSE /\ Piloted
                   /\ player.lead_timer + frame_dt' >= 1350
                   /\ player'.direction = player.pending_direction
      ]_vars

\* ------------------------------------------------------------------------
\* Invulnerability
\* ------------------------------------------------------------------------
\* the invulnerability left when the hits of this step are decided:
\* Player.update counts it down before the teleport state machine runs
Shield == IF Piloted THEN player.invulnerable - frame_dt' ELSE player.invulnerable

\* C24: while the player's invulnerability timer is above zero, nothing
\* reduces lives or starts a respawn delay: contact with hostiles, hostile
\* projectiles or mines, and an unsafe teleport arrival, all leave lives
\* unchanged.
C24_Shielded ==
    [][Shield > 0 /\ game'.mode = game.mode =>
           /\ player'.lives >= player.lives
           /\ game'.respawn_timer.active => game.respawn_timer.active
      ]_vars

\* the collisions of a frame have been handled with a hostile on the
\* shielded ship
C24_Witness ==
    /\ pc = "humans"
    /\ game.mode = "playing" /\ ~game.no_death
    /\ player.invulnerable > 0
    /\ ~game.respawn_timer.active
    /\ Touching /= {}

\* ------------------------------------------------------------------------
\* A lander whose target is no longer its own
\* ------------------------------------------------------------------------
\* the colonist a lander is after is its own: reserved by it and standing
\* on the ground while it comes down, carried by it while it goes up
Own(en) ==
    \/ en.state = "descending" /\ humans[en.target].state = "ground"
           /\ humans[en.target].reserved_by = en.id /\ humans[en.target].carrier = None
    \/ en.state = "ascending" /\ humans[en.target].state = "captured"
           /\ humans[en.target].carrier = en.id

Lost(en) ==
    /\ en.kind = "lander" /\ en.state \in {"descending", "ascending"}
    /\ en.target /= None /\ ~Own(en)

\* the lander has let the colonist go and is seeking again
LetGo(en) ==
    \/ en.id \notin LanderIds(enemies')
    \/ /\ Sprite(enemies', en.id).state = "patrolling"
       /\ Sprite(enemies', en.id).target /= en.target
       /\ humans'[en.target].reserved_by /= en.id
       /\ humans'[en.target].carrier /= en.id

\* C25: a lander coming down or going up whose target stops being its own
\* lets the target go and is patrolling again no later than its next
\* update: a lander going up is never seen with a colonist that is not
\* captured by it, and a lander coming down whose colonist is no longer
\* reserved by it on the ground is, after the next sprite update, patrolling
\* without that target and without a claim on it.
C25_Released ==
    [][\A i \in 1..Len(enemies) :
           Lost(enemies[i]) =>
               /\ enemies[i].state = "descending"
               /\ pc = "sprites" => LetGo(enemies[i])]_vars

\* a lander patrols without a target below its patrol band, where it was
\* on its way down to a colonist that has since been shot
C25_Witness ==
    /\ pc = "spawn"
    /\ \E i \in 1..Len(enemies) :
           /\ enemies[i].kind = "lander" /\ enemies[i].state = "patrolling"
           /\ enemies[i].target = None
           /\ enemies[i].y > (PLAYFIELD_TOP + 160) * YU
           /\ \E k \in DOMAIN humans :
                  humans[k].state = "dead" /\ Abs(shortest_offset(humans[k].x, enemies[i].x)) < 6

\* ------------------------------------------------------------------------
\* Reserving and releasing a colonist
\* ------------------------------------------------------------------------
\* C26: reserve_for_lander(c, h) succeeds only if c is on the ground and is
\* unreserved or already reserved by h, and then c is reserved by h, while
\* a refused call leaves c as it is; release_reservation(h) by the owner
\* clears the reservation, by a lander that does not own it leaves c as it
\* is, and a second release changes nothing after the first.
C26_Reservation ==
    \A k \in DOMAIN humans : \A h \in 1..MaxId :
        LET c == humans[k]
            once == release_reservation(c, h)
        IN  /\ reserve_ok(c, h) => c.state = "ground" /\ c.reserved_by \in {None, h}
            /\ reserve_ok(c, h) => reserve_for_lander(c, h) = [c EXCEPT !.reserved_by = h]
            /\ ~reserve_ok(c, h) => reserve_for_lander(c, h) = c
            /\ c.reserved_by /= h => once = c
            /\ c.reserved_by = h => once = [c EXCEPT !.reserved_by = None]
            /\ release_reservation(once, h) = once

\* one colonist is reserved by the lander that has it as its target,
\* another one is being carried up, and a second lander is about: its
\* reserve is refused for both and its release changes neither
C26_Witness ==
    \E k, m \in DOMAIN humans : \E i, j \in Landers :
        /\ i /= j /\ k /= m
        /\ humans[k].state = "ground" /\ humans[k].reserved_by = enemies[i].id
        /\ enemies[i].target = k
        /\ humans[m].state = "captured"
        /\ ~reserve_ok(humans[k], enemies[j].id) /\ ~reserve_ok(humans[m], enemies[j].id)
        /\ release_reservation(humans[k], enemies[j].id) = humans[k]

\* ------------------------------------------------------------------------
\* The Baiter of a wave
\* ------------------------------------------------------------------------
Baiters(es) == {es[i].id : i \in {j \in 1..Len(es) : es[j].kind = "baiter"}}

\* the step that ends the spawn stage of a frame
SpawnEnds == pc = "spawn" /\ pc' = "collide"

\* a wave starts: its clock is set back to zero
WaveStarts == game'.wave_timer = 0 /\ (game.wave_timer /= 0 \/ game'.wave /= game.wave \/ game'.mode /= game.mode)

\* C27: a Baiter appears only at the end of the spawn stage of a frame
\* whose wave time has reached BAITER_SPAWN_DELAY, in a wave that has not
\* had one, and one at a time; when the spawn stage ends with the wave time
\* at or past the delay, no Baiter about and none spawned in this wave, one
\* Baiter is spawned in that frame; the flag, once set, stays set until a
\* wave starts, and every wave starts with the flag cleared.
C27_Hunter ==
    [][/\ Baiters(enemies') \ Baiters(enemies) /= {} =>
              /\ SpawnEnds
              /\ ~game.baiter_spawned /\ game'.baiter_spawned
              /\ game.wave_timer >= BAITER_SPAWN_DELAY
              /\ Baiters(enemies) = {}
              /\ Cardinality(Baiters(enemies')) = 1
       /\ ~game.baiter_spawned /\ game'.baiter_spawned =>
              SpawnEnds /\ Cardinality(Baiters(enemies')) = 1 /\ Len(enemies') = Len(enemies) + 1
       /\ SpawnEnds /\ ~game.baiter_spawned /\ game.wave_timer >= BAITER_SPAWN_DELAY
              /\ Baiters(enemies) = {} =>
              game'.baiter_spawned /\ Cardinality(Baiters(enemies')) = 1
       /\ game.baiter_spawned /\ ~game'.baiter_spawned => WaveStarts
       /\ WaveStarts => ~game'.baiter_spawned]_vars

\* the wave clock has just passed 35 s with the wave still on: the spawn
\* stage of that frame has put the one Baiter of the wave into the world
C27_Witness ==
    /\ pc = "collide"
    /\ game.mode = "playing"
    /\ game.baiter_spawned
    /\ game.wave_timer >= BAITER_SPAWN_DELAY /\ game.wave_timer - frame_dt < BAITER_SPAWN_DELAY
    /\ Cardinality(Baiters(enemies)) = 1
    /\ game.remaining_aliens > 1

\* ------------------------------------------------------------------------
\* The spawn queue is drained every frame
\* ------------------------------------------------------------------------
\* the entries of queue q that are due at wave time t
DueAt(q, t) == {i \in 1..Len(q) : q[i].time <= t}

\* the identities of the enemies of the kinds that are queued
Queued(es) == {es[i].id : i \in {j \in 1..Len(es) : es[j].kind \in {"lander", "bomber", "pod"}}}

\* C28: the pending-spawn queue is drained every frame: an entry leaves the
\* queue for the world only when its scheduled time is at or before the wave
\* timer, one enemy per entry; the spawn stage of a frame ends with no due
\* entry left, and so does the frame.
C28_Drained ==
    [][/\ Drains =>
              /\ game.pending_spawns[1].time <= game.wave_timer
              /\ Len(enemies') = Len(enemies) + 1
              /\ Cardinality(Queued(enemies') \ Queued(enemies)) = 1
       /\ pc = "spawn" /\ pc' = "collide" => DueAt(game.pending_spawns, game.wave_timer) = {}
       /\ pc = "finish" /\ pc' = "events" =>
              DueAt(game'.pending_spawns, game'.wave_timer) = {}]_vars

\* a frame of wave 5 has ended 24.0 s into the wave: the bomber and the pod
\* scheduled for that instant are in the world, and the pods scheduled for
\* later are still queued
C28_Witness ==
    /\ pc = "events"
    /\ game.mode = "playing"
    /\ game.wave = 5
    /\ game.wave_timer = 24000
    /\ Len(game.pending_spawns) > 0
    /\ DueAt(game.pending_spawns, game.wave_timer) = {}
    /\ \E i, j \in 1..Len(enemies) :
           /\ enemies[i].kind = "bomber" /\ enemies[j].kind = "pod"
           /\ enemies[i].id + 1 = enemies[j].id /\ enemies[j].id + 1 = game.next_id

\* ------------------------------------------------------------------------
\* The lasers-versus-enemies pass of a frame
\* ------------------------------------------------------------------------
\* the step that runs handle_collisions
Pass == pc = "collide" /\ pc' = "humans"

\* the lasers whose rectangle overlaps the enemy, before the pass
Bolts(en) == {j \in 1..Len(lasers) : collide_rect(en, en.kind, lasers[j], "laser")}

Ids(es) == {es[i].id : i \in 1..Len(es)}

\* the lasers left after the pass
Remaining == {lasers'[j] : j \in 1..Len(lasers')}

\* the enemy is on the screen or within 8 px of it
InSight(i) == sprite_visible(enemies[i], enemies[i].kind, 8)

\* the lasers consumed by the enemies that come before number i in the pass
RECURSIVE Spent(_)
Spent(i) ==
    IF i <= 1 THEN {}
    ELSE LET before == Spent(i - 1)
         IN  IF InSight(i - 1) /\ Bolts(enemies[i - 1]) \ before /= {}
             THEN before \cup Bolts(enemies[i - 1]) ELSE before

\* enemy number i is damaged in the pass
Struck(i) == InSight(i) /\ Bolts(enemies[i]) \ Spent(i) /= {}

\* what the destruction of enemy number i adds to the score
Award(i) ==
    enemies[i].points
        + (IF /\ enemies[i].kind = "lander" /\ enemies[i].target /= None
              /\ humans[enemies[i].target].state = "captured"
           THEN 350 ELSE 0)

RECURSIVE Awards(_)
Awards(i) ==
    IF i = 0 THEN 0
    ELSE Awards(i - 1) + (IF Struck(i) /\ enemies[i].health = 1 THEN Award(i) ELSE 0)

\* the pass takes one health point from the enemy, which is removed at zero
Damaged(i) ==
    IF enemies[i].health = 1 THEN enemies[i].id \notin Ids(enemies')
    ELSE /\ enemies[i].id \in Ids(enemies')
         /\ Sprite(enemies', enemies[i].id).health = enemies[i].health - 1

\* the statement without its conditions: every enemy that a laser overlaps
\* loses one health point, its lasers are consumed and the score grows by
\* the points of the enemies destroyed
C29_Original ==
    [][Pass =>
           /\ \A i \in 1..Len(enemies) : Bolts(enemies[i]) /= {} =>
                  /\ Damaged(i)
                  /\ \A j \in Bolts(enemies[i]) : lasers[j] \notin Remaining]_vars

\* C29: in the lasers-versus-enemies pass of a frame, an enemy that is in
\* sight (within 8 px of the screen) and overlapped by at least one laser
\* not yet consumed in the pass loses exactly one health point, however many
\* lasers overlap it, and every laser overlapping it is consumed; any other
\* enemy keeps its health, so that a laser damages at most one enemy; an
\* enemy whose health reaches zero is removed from the enemies, and the
\* score grows by the points of the enemies removed, and by 350 more for a
\* lander removed while it carries a colonist.
C29_Pass ==
    [][Pass =>
           /\ \A i \in 1..Len(enemies) :
                  IF Struck(i)
                  THEN /\ Damaged(i)
                       /\ \A j \in Bolts(enemies[i]) : lasers[j] \notin Remaining
                  ELSE /\ enemies[i].id \in Ids(enemies')
                       /\ Sprite(enemies', enemies[i].id).health = enemies[i].health
           /\ player'.score = player.score + Awards(Len(enemies))]_vars

\* before the pass: two lasers overlap a mutant in sight, which has both
\* its health points, and one of them overlaps another enemy in sight as
\* well, which comes later in the pass and finds no laser left
C29_Witness ==
    /\ pc = "collide"
    /\ \E i, k \in 1..Len(enemies) :
           /\ i /= k
           /\ Struck(i) /\ enemies[i].health = 2
           /\ Cardinality(Bolts(enemies[i])) >= 2
           /\ Bolts(enemies[i]) \cap Bolts(enemies[k]) /= {}
           /\ InSight(k) /\ ~Struck(k)

\* ------------------------------------------------------------------------
\* Picking a colonist up and setting it down
\* ------------------------------------------------------------------------
\* the colonists the ship carries
Carried == {k \in DOMAIN humans : humans[k].state = "carried"}

\* the step that runs handle_human_interactions
Meets == pc = "humans" /\ pc' = "finish"

\* the altitude at which colonist k stands on the ground below it
GroundLine(k) == terrain_height(humans[k].x) - (SpriteH("human") \div 2) * YU

\* C30: the ship holds at most one colonist at a time, the one it carries;
\* a colonist becomes carried only in the interaction step of a frame, when
\* the ship holds none and its rectangle overlaps the colonist, which is
\* falling, and the score grows by 250; a carried colonist comes to stand on
\* the ground only in the interaction step, when it is the one held and the
\* ship is no more than 12 px above its ground line, and the score grows by
\* 250; no other interaction step changes the score.
C30_OneAboard ==
    [][/\ Cardinality(Carried) <= 1
       /\ \A k \in Carried : player.held_human = k /\ humans[k].carrier = PLAYER
       /\ player.held_human /= None => humans[player.held_human].state = "carried"
       /\ \A k \in DOMAIN humans :
              /\ humans[k].state /= "carried" /\ humans'[k].state = "carried" =>
                     /\ Meets
                     /\ player.held_human = None /\ player'.held_human = k
                     /\ humans[k].state = "falling"
                     /\ collide_rect(player, "player", humans[k], "human")
                     /\ player'.score = player.score + 250
              /\ humans[k].state = "carried" /\ humans'[k].state = "ground" /\ game'.wave = game.wave =>
                     /\ Meets
                     /\ player.held_human = k /\ player'.held_human = None
                     /\ player.y >= GroundLine(k) - 12 * YU
                     /\ player'.score = player.score + 250
       /\ Meets /\ player'.held_human = player.held_human => player'.score = player.score]_vars

\* the ship has caught a falling colonist and has come down with it to its
\* ground line: the next interaction step sets it down
C30_Witness ==
    /\ pc = "humans"
    /\ player.held_human /= None
    /\ humans[player.held_human].state = "carried"
    /\ player.y >= GroundLine(player.held_human) - 12 * YU
    /\ player.score >= 250

\* ------------------------------------------------------------------------
\* Enemy shots and colonists
\* ------------------------------------------------------------------------
\* the enemy shots and mines whose rectangle overlaps colonist k, before the pass
Grazing(k) ==
    {j \in 1..Len(enemy_shots) :
        collide_rect(humans[k], "human", enemy_shots[j], ShotKind(enemy_shots[j]))}

\* the enemy shots left after the pass
ShotsLeft == {enemy_shots'[j] : j \in 1..Len(enemy_shots')}

\* nothing but enemy shots reaches colonist k in the pass: no laser overlaps
\* it, the lander that carries or has reserved it is not destroyed, and the
\* ship that carries it is not hit
Sheltered(k) ==
    /\ \A j \in 1..Len(lasers) : ~collide_rect(humans[k], "human", lasers[j], "laser")
    /\ humans[k].carrier \in {None, PLAYER} \cup Ids(enemies')
    /\ humans[k].reserved_by \in {None} \cup Ids(enemies')
    /\ player.held_human = k => player'.held_human = k

\* C31: in the collision pass an enemy shot that overlaps a colonist who is
\* alive when the shots are tested is removed from the enemy shots; a
\* colonist reached by nothing but enemy shots keeps its state, carrier and
\* reservation; and a colonist dies in the pass only if a laser overlaps it.
C31_Harmless ==
    [][Pass =>
           \A k \in DOMAIN humans :
               /\ humans'[k].state /= "dead" =>
                      \A j \in Grazing(k) : enemy_shots[j] \notin ShotsLeft
               /\ Sheltered(k) => humans'[k] = humans[k]
               /\ humans[k].state /= "dead" /\ humans'[k].state = "dead" =>
                      \E j \in 1..Len(lasers) : collide_rect(humans[k], "human", lasers[j], "laser")]_vars

\* before the pass: an enemy shot overlaps a living colonist that no laser
\* overlaps, and does not overlap the ship
C31_Witness ==
    /\ pc = "collide"
    /\ \E k \in DOMAIN humans :
           /\ humans[k].state /= "dead"
           /\ \A j \in 1..Len(lasers) : ~collide_rect(humans[k], "human", lasers[j], "laser")
           /\ \E j \in Grazing(k) :
                  ~collide_rect(player, "player", enemy_shots[j], ShotKind(enemy_shots[j]))

\* ------------------------------------------------------------------------
\* Every turn-around completes
\* ------------------------------------------------------------------------
\* C32: a turn-around that has started completes within the duration of the
\* sweep: reverse_in_progress is true only while the camera-lead sweep is
\* animating and its clock is short of the 1.35 s of the sweep, a teleport
\* invoked during the sweep included.
C32_Completes ==
    player.reverse_in_progress =>
        player.lead_animating /\ player.lead_timer < 1350

\* ------------------------------------------------------------------------
\* A dead colonist stays dead
\* ------------------------------------------------------------------------
\* C33: within a wave, dead is a terminal colonist state: a colonist that is
\* dead is dead after every step that neither changes the wave nor starts
\* or ends a session.
C33_Terminal ==
    [][\A k \in DOMAIN humans :
           humans[k].state = "dead" /\ humans'[k].state /= "dead" =>
               game'.wave /= game.wave \/ game'.mode /= game.mode]_vars

C35_Inert ==
    [][game.respawn_timer.active /\ game'.respawn_timer.active =>
           /\ Len(lasers') <= Len(lasers)
           /\ player'.y = player.y
           /\ player'.held_human = None]_vars

\* ------------------------------------------------------------------------
\* No reservation outlives its lander
\* ------------------------------------------------------------------------
\* C36: in every reachable state, in play and in the demonstration, a
\* colonist's reserved_by names a lander that is in the hostile collection,
\* and so does the carrier of a captured colonist: a lander that has been
\* shot, smart-bombed or has mutated holds no colonist.
C36_Outlived ==
    \A k \in DOMAIN humans :
        /\ humans[k].reserved_by /= None =>
               humans[k].reserved_by \in LanderIds(enemies)
        /\ humans[k].state = "captured" =>
               humans[k].carrier \in LanderIds(enemies)

\* ------------------------------------------------------------------------
\* A lander on its way down or up has its colonist
\* ------------------------------------------------------------------------
\* the landers that are descending or ascending
Committed ==
    {i \in Landers : enemies[i].state \in {"descending", "ascending"}}

SessionStarts ==
    \/ game'.mode = "playing" /\ game.mode /= "playing"
    \/ game'.mode = "demo" /\ game.mode /= "demo"
    \/ game'.mode = "title" /\ game.mode = "demo"

\* C38: starting a game and leaving the demonstration cancel a pending
\* respawn: the respawn timer is empty after every step that starts a
\* session, so no hit of the session before respawns the ship or ends the
\* game in the new one.
C38_Cancelled ==
    [][SessionStarts => ~game'.respawn_timer.active]_vars

\* ------------------------------------------------------------------------
\* The count of the hostiles
\* ------------------------------------------------------------------------
\* C39: after every frame the remaining-hostile counter equals the number of
\* hostiles in the hostile collection, whatever has spawned, burst, been
\* destroyed or mutated in the frame.
C39_Counted ==
    pc = "events" => game.remaining_aliens = Len(enemies)

====
